---------------------------- MODULE Spec2Model ----------------------------
(***************************************************************************)
(* Model of the hardware telemetry of rusty-notepad: the SMC temperature   *)
(* client and the accelerator enumerator of src/system_monitor.rs and      *)
(* src/gpu.rs, and the throttled refresh of src/app.rs.                    *)
(*                                                                         *)
(* Numbers.  An f32 is modelled as an exact rational [k, n, d] (k = "num", *)
(* value n/d in lowest terms) or as one of the non-numbers "nan", "inf",   *)
(* "tiny" (a float of magnitude below 1 that the model does not expand)    *)
(* and "huge" (a finite float of magnitude 128 or more).  Option<f32> adds *)
(* k = "none".  Rounding of f32 sums and quotients is not modelled.        *)
(*                                                                         *)
(* Foreign calls.  Every IOKit call a function makes is appended to a log  *)
(* of events; the functions are operators that return [ret, log].  The     *)
(* answers of the platform (which keys fail, what a response holds) are    *)
(* the environment: the variables smc and gpus.                            *)
(***************************************************************************)
EXTENDS Integers, Sequences, FiniteSets, TLC

VARIABLES
    clock,                \* monotonic time now, in ms (Instant::now())
    os,                   \* what sysinfo would report now: [cpu, used, total]
    smc,                  \* behaviour of the AppleSMC service (environment)
    gpus,                 \* behaviour of the IOAccelerator services (environment)
    last_system_refresh,  \* NotepadApp.last_system_refresh
    cpu_usage,            \* NotepadApp.cpu_usage
    gpu_usage,            \* NotepadApp.gpu_usage
    system_stats,         \* NotepadApp.system_stats, read by render_status_bar
    io_log,               \* foreign calls and sysinfo reads of the last call that made any
    temp_ret,             \* return value of the last get_cpu_temperature call
    gpu_ret,              \* return values of the last get_gpu_usage calls
    last_call,            \* the last operation called and what it saw on entry
    codec_in,             \* the argument of the last call of a codec function
    codec_out,            \* what that call returned
    throttled,            \* refresh calls answered from the cache in a row before the last pass or since
    stats_ret,            \* return value of the last collect_stats call
    status_bar,           \* the texts render_status_bar has put on the screen
    text,                 \* NotepadApp.text
    file_path,            \* NotepadApp.file_path
    dirty,                \* NotepadApp.dirty
    show_unsaved_dialog,  \* NotepadApp.show_unsaved_dialog
    pending_action,       \* NotepadApp.pending_action
    status_message,       \* NotepadApp.status_message
    disk,                 \* the contents of the files (environment)
    window,               \* the viewport: "open", "close_sent" once Close was sent, "closed"
    last_event,           \* the last user event handled and what it did
    now_secs,             \* monotonic time now, in seconds (Instant::now())
    weather,              \* the value behind NotepadApp.weather (Arc<Mutex<Option<WeatherInfo>>>)
    weather_lock,         \* the holder of that mutex: 0 for none, or a fetch thread
    weather_writer,       \* the fetch thread that wrote weather last, 0 for none
    last_weather_fetch,   \* NotepadApp.last_weather_fetch
    fetches,              \* the background threads spawned for fetch_weather
    weather_event,        \* the last step of the weather code and what it saw
    title_weather,        \* the weather text render_title_bar has put on the screen
    font_size,            \* NotepadApp.font_size
    font_event            \* the last font-size button clicked and the size it found

(* The document and its window. *)
doc_vars == <<text, file_path, dirty, show_unsaved_dialog, pending_action,
              status_message, disk, window, last_event>>

(* The telemetry and the codec calls. *)
hw_vars == <<clock, os, smc, gpus, last_system_refresh, cpu_usage, gpu_usage,
             system_stats, io_log, temp_ret, gpu_ret, last_call, codec_in,
             codec_out, throttled, stats_ret, status_bar>>

(* The weather of the title bar and the editor font. *)
view_vars == <<now_secs, weather, weather_lock, weather_writer,
               last_weather_fetch, fetches, weather_event, title_weather,
               font_size, font_event>>

vars == <<hw_vars, doc_vars, view_vars>>

---------------------------------------------------------------------------
(* f32 and Option<f32> *)

RECURSIVE Gcd(_, _)
Gcd(a, b) == IF b = 0 THEN a ELSE Gcd(b, a % b)

Abs(x) == IF x < 0 THEN -x ELSE x

(* The rational n/d (d > 0) in lowest terms. *)
Rat(n, d) ==
    LET g == Gcd(Abs(n), d)
    IN  [k |-> "num", n |-> n \div g, d |-> d \div g]

Num(i) == [k |-> "num", n |-> i, d |-> 1]
None == [k |-> "none", n |-> 0, d |-> 1]
NaN == [k |-> "nan", n |-> 0, d |-> 1]

IsSome(v) == v.k # "none"
IsNum(v) == v.k = "num"

Lcm(a, b) == (a \div Gcd(a, b)) * b

(* a + b over the least common denominator. *)
RatAdd(a, b) ==
    Rat(a.n * (Lcm(a.d, b.d) \div a.d) + b.n * (Lcm(a.d, b.d) \div b.d),
        Lcm(a.d, b.d))
RatDivInt(a, c) == Rat(a.n, a.d * c)
RatLess(a, b) == a.n * b.d < b.n * a.d
RatLeq(a, b) == a.n * b.d <= b.n * a.d

(* (lo..hi).contains(&v) for an f32 v: lo <= v < hi.  A NaN is in no range; *)
(* an infinity, a huge float (|v| >= 128) and a negative tiny float are     *)
(* outside every range used here; a non-negative tiny float (0 <= v < 1)    *)
(* is inside exactly when lo <= 0.                                          *)
InRange(v, lo, hi) ==
    CASE v.k = "num" -> RatLeq(Num(lo), v) /\ RatLess(v, Num(hi))
      [] v.k = "tiny" -> v.n > 0 /\ lo <= 0 /\ hi >= 1
      [] OTHER -> FALSE

RECURSIVE SumSeq(_)
SumSeq(s) == IF s = <<>> THEN Num(0) ELSE RatAdd(Head(s), SumSeq(Tail(s)))

(* temps.iter().sum::<f32>() / temps.len() as f32 *)
Mean(s) == RatDivInt(SumSeq(s), Len(s))

---------------------------------------------------------------------------
(* Key codec: src/system_monitor.rs *)

KERN_SUCCESS == 0
SMC_CMD_READ_KEYINFO == 9
SMC_CMD_READ_BYTES == 5

(* A 4-character ASCII name as the tuple of its character codes. *)
Ascii(c) ==
    CASE c = " " -> 32 [] c = "0" -> 48 [] c = "1" -> 49 [] c = "5" -> 53
      [] c = "7" -> 55 [] c = "8" -> 56 [] c = "9" -> 57 [] c = "C" -> 67
      [] c = "D" -> 68 [] c = "H" -> 72 [] c = "L" -> 76 [] c = "P" -> 80
      [] c = "T" -> 84 [] c = "X" -> 88 [] c = "b" -> 98 [] c = "f" -> 102
      [] c = "i" -> 105 [] c = "l" -> 108 [] c = "p" -> 112 [] c = "s" -> 115
      [] c = "t" -> 116 [] c = "u" -> 117

FourCC(a, b, c, d) == <<Ascii(a), Ascii(b), Ascii(c), Ascii(d)>>

(* The first byte shifted by 16 instead of 24. *)
fourcc_to_u32_short_shift(s) == s[1] * 65536 + s[2] * 65536 + s[3] * 256 + s[4]

(* ((s[0] as u32) << 24) | ((s[1] as u32) << 16) | ((s[2] as u32) << 8) | s[3] *)
fourcc_to_u32(s) == s[1] * 16777216 + s[2] * 65536 + s[3] * 256 + s[4]

(* struct SMCKeyInfoData *)
SMCKeyInfoData(size, type, attr) ==
    [data_size |-> size, data_type |-> type, data_attributes |-> attr]

SMCKeyInfoDefault == SMCKeyInfoData(0, 0, 0)

(* bytes: [u8; 32], here 1-indexed: bytes[0] of the code is bytes[1]. *)
BytesLen == 32
PadBytes(p) == [i \in 1..BytesLen |-> IF i <= Len(p) THEN p[i] ELSE 0]

(* The two bytes taken as an unsigned 16-bit integer. *)
DecodeSp78_unsigned(bytes) == Rat(bytes[1] * 256 + bytes[2], 256)

(* The fraction byte left out. *)
DecodeSp78_whole_degrees(bytes) ==
    Num(IF bytes[1] >= 128 THEN bytes[1] - 256 ELSE bytes[1])

(* ((b0 as i16) << 8) | (b1 as i16), then raw as f32 / 256.0 *)
DecodeSp78(bytes) ==
    LET u == bytes[1] * 256 + bytes[2]
        raw == IF u >= 32768 THEN u - 65536 ELSE u
    IN  Rat(raw, 256)

(* The four bytes taken least significant first: f32::from_le_bytes. *)
DecodeF32_little_endian(bytes) ==
    LET sign == bytes[4] \div 128
        exp == (bytes[4] % 128) * 2 + bytes[3] \div 128
        mant == (bytes[3] % 128) * 65536 + bytes[2] * 256 + bytes[1]
        sgn == IF sign = 1 THEN -1 ELSE 1
    IN  CASE exp = 255 /\ mant # 0 -> NaN
          [] exp = 255 /\ mant = 0 -> [k |-> "inf", n |-> sgn, d |-> 1]
          [] exp >= 134 /\ exp < 255 -> [k |-> "huge", n |-> sgn, d |-> 1]
          [] exp < 127 -> [k |-> "tiny", n |-> sgn, d |-> 1]
          [] OTHER -> Rat(sgn * (8388608 + mant) * (2 ^ (exp - 127)), 8388608)

(* f32::from_be_bytes([b0, b1, b2, b3]) *)
DecodeF32(bytes) ==
    LET sign == bytes[1] \div 128
        exp == (bytes[1] % 128) * 2 + bytes[2] \div 128
        mant == (bytes[2] % 128) * 65536 + bytes[3] * 256 + bytes[4]
        sgn == IF sign = 1 THEN -1 ELSE 1
    IN  CASE exp = 255 /\ mant # 0 -> NaN
          [] exp = 255 /\ mant = 0 -> [k |-> "inf", n |-> sgn, d |-> 1]
          [] exp >= 134 /\ exp < 255 -> [k |-> "huge", n |-> sgn, d |-> 1]
          [] exp < 127 -> [k |-> "tiny", n |-> sgn, d |-> 1]
          [] OTHER -> Rat(sgn * (8388608 + mant) * (2 ^ (exp - 127)), 8388608)

(* The fallback arm keeping every byte value. *)
FallbackDecode_unchecked(bytes) == Num(bytes[1])

(* The fallback arm of parse_temperature_value: data.bytes[0] as f32, kept *)
(* only inside [0, 150).                                                    *)
FallbackDecode(bytes) ==
    LET temp == Num(bytes[1])
    IN  IF InRange(temp, 0, 150) THEN temp ELSE None

(* parse_temperature_value(data): the type tag is read from the key_info of *)
(* the structure it is given.                                               *)
parse_temperature_value(data) ==
    LET data_type == data.key_info.data_type
    IN  CASE data_type = fourcc_to_u32(FourCC("s", "p", "7", "8")) ->
                DecodeSp78(data.bytes)
          [] data_type = fourcc_to_u32(FourCC("f", "l", "t", " ")) ->
                DecodeF32(data.bytes)
          [] OTHER -> FallbackDecode(data.bytes)

---------------------------------------------------------------------------
(* Foreign-call log *)

(* One foreign call: its name, the object it is made on (a service, a      *)
(* connection, an iterator or an entry), and, for a struct call, the       *)
(* command, key and key_info of the input structure; res is what it        *)
(* returned (a status, or the object it produced).                         *)
Ev(call, obj, cmd, key, key_info, res) ==
    [call |-> call, obj |-> obj, cmd |-> cmd, key |-> key,
     key_info |-> key_info, res |-> res]

Call(call, obj, res) == Ev(call, obj, 0, 0, SMCKeyInfoDefault, res)

StructCall(connection, input, res) ==
    Ev("IOConnectCallStructMethod", connection, input.data8, input.key,
       input.key_info, res)

CountCalls(log, call, obj) ==
    Cardinality({i \in 1..Len(log) : log[i].call = call /\ log[i].obj = obj})

CountCallsNamed(log, call) ==
    Cardinality({i \in 1..Len(log) : log[i].call = call})

---------------------------------------------------------------------------
(* Sensor protocol client: src/system_monitor.rs *)

(* const TEMP_KEYS *)
TEMP_KEYS ==
    << FourCC("T", "p", "0", "9"), FourCC("T", "p", "0", "1"),
       FourCC("T", "p", "0", "5"), FourCC("T", "p", "0", "D"),
       FourCC("T", "p", "0", "H"), FourCC("T", "p", "0", "L"),
       FourCC("T", "p", "0", "P"), FourCC("T", "p", "0", "X"),
       FourCC("T", "p", "0", "b"), FourCC("T", "C", "0", "P"),
       FourCC("T", "C", "0", "C"), FourCC("T", "C", "1", "C"),
       FourCC("T", "C", "0", "D"), FourCC("T", "C", "X", "C") >>

KeyIndex == 1..Len(TEMP_KEYS)

(* The fields of struct SMCKeyData that the client writes or reads. *)
SMCKeyData(key, key_info, data8, bytes) ==
    [key |-> key, key_info |-> key_info, data8 |-> data8, bytes |-> bytes]

(* What the service answers for one key (environment): info_res and        *)
(* key_info are the status and the key_info of the output of a             *)
(* READ_KEYINFO call; read_res, out_key_info and bytes are the status, the *)
(* key_info and the payload of the output of a READ_BYTES call (prefix is  *)
(* the payload up to its last non-zero byte).                              *)
KeyResp(info_res, key_info, read_res, out_key_info, prefix) ==
    [info_res |-> info_res, key_info |-> key_info, read_res |-> read_res,
     out_key_info |-> out_key_info, prefix |-> prefix]

(* IOConnectCallStructMethod(connection, KERNEL_INDEX_SMC, &input, ..,     *)
(* &mut output, ..): the status and the output structure, by command.      *)
IOConnectCallStructMethod(resp, input) ==
    IF input.data8 = SMC_CMD_READ_KEYINFO
    THEN [res |-> resp.info_res,
          output |-> SMCKeyData(0, resp.key_info, 0, PadBytes(<<>>))]
    ELSE [res |-> resp.read_res,
          output |-> SMCKeyData(0, resp.out_key_info, 0, PadBytes(resp.prefix))]

(* The input of the first call: input.key = fourcc_to_u32(key),            *)
(* input.data8 = SMC_CMD_READ_KEYINFO, all else default.                   *)
KeyInfoInput(key) ==
    SMCKeyData(fourcc_to_u32(key), SMCKeyInfoDefault, SMC_CMD_READ_KEYINFO,
               PadBytes(<<>>))

(* The input of the second call built without the key_info received: it    *)
(* keeps the default one.                                                  *)
ReadBytesInput_fresh_info(input, output) ==
    [input EXCEPT !.data8 = SMC_CMD_READ_BYTES]

(* The input of the second call: the same structure with                   *)
(* input.key_info = output.key_info and input.data8 = SMC_CMD_READ_BYTES.  *)
ReadBytesInput(input, output) ==
    [input EXCEPT !.key_info = output.key_info, !.data8 = SMC_CMD_READ_BYTES]

(* What read_smc_key returns and which calls it has made, given the input  *)
(* and the answer (status and output) of each call: it returns after a     *)
(* failed first call without making the second, and decodes the output of  *)
(* the second call.                                                        *)
SmcKeyResult(connection, input1, r1, input2, r2) ==
    IF r1.res # 0
    THEN [ret |-> None, log |-> <<StructCall(connection, input1, r1.res)>>]
    ELSE [ret |-> IF r2.res # 0 THEN None
                  ELSE parse_temperature_value(r2.output),
          log |-> <<StructCall(connection, input1, r1.res),
                    StructCall(connection, input2, r2.res)>>]

(* read_smc_key from the answer r1 of the first call on. *)
ReadBytesPhase(connection, resp, input1, r1, input2) ==
    SmcKeyResult(connection, input1, r1, input2,
                 IOConnectCallStructMethod(resp, input2))

(* read_smc_key from the first call on. *)
KeyInfoPhase(connection, resp, input1, r1) ==
    ReadBytesPhase(connection, resp, input1, r1,
                   ReadBytesInput(input1, r1.output))

(* read_smc_key(connection, key): input is built once and keeps its key;   *)
(* the second call overwrites output, and output is what is decoded.       *)
read_smc_key(connection, key, resp) ==
    KeyInfoPhase(connection, resp, KeyInfoInput(key),
                 IOConnectCallStructMethod(resp, KeyInfoInput(key)))

(* The band check left out: every decoded reading is kept. *)
PlausibleTemp_unchecked(t) == TRUE

(* The band with its upper bound included: 20.0..=110.0. *)
PlausibleTemp_inclusive(t) == InRange(t, 20, 110) \/ t = Num(110)

(* (20.0..110.0).contains(&t) *)
PlausibleTemp(t) == InRange(t, 20, 110)

RECURSIVE ReadKeysFrom(_, _, _, _, _)

(* The body of the loop leaving the loop at a key that yields nothing, as  *)
(* read_smc_key(connection, key)? would.                                   *)
ReadKeysStep_stop_at_failure(connection, resps, i, temps, log, r) ==
    IF ~IsSome(r.ret)
    THEN [temps |-> <<>>, log |-> log \o r.log]
    ELSE ReadKeysFrom(connection, resps, i + 1,
                      IF PlausibleTemp(r.ret) THEN Append(temps, r.ret)
                      ELSE temps,
                      log \o r.log)

(* The body of the loop ending the scan at the first reading accepted.     *)
ReadKeysStep_first_accepted(connection, resps, i, temps, log, r) ==
    IF IsSome(r.ret) /\ PlausibleTemp(r.ret)
    THEN [temps |-> Append(temps, r.ret), log |-> log \o r.log]
    ELSE ReadKeysFrom(connection, resps, i + 1, temps, log \o r.log)

(* The body of the loop of read_cpu_temperature for key i, r being what    *)
(* read_smc_key returned for it: the reading is pushed when it is in the   *)
(* band, and the loop goes on.                                             *)
ReadKeysStep(connection, resps, i, temps, log, r) ==
    ReadKeysFrom(connection, resps, i + 1,
                 IF IsSome(r.ret) /\ PlausibleTemp(r.ret)
                 THEN Append(temps, r.ret)
                 ELSE temps,
                 log \o r.log)

(* The loop of read_cpu_temperature from key i on: temps and the log so far. *)
ReadKeysFrom(connection, resps, i, temps, log) ==
    IF i > Len(TEMP_KEYS)
    THEN [temps |-> temps, log |-> log]
    ELSE ReadKeysStep(connection, resps, i, temps, log,
                      read_smc_key(connection, TEMP_KEYS[i], resps[i]))

(* The end of read_cpu_temperature averaging over an empty list as 0.0.   *)
TempResult_zero_when_empty(r) ==
    [ret |-> IF r.temps = <<>> THEN Num(0) ELSE Mean(r.temps), log |-> r.log]

(* The end of read_cpu_temperature: none for no reading, else the mean. *)
TempResult(r) ==
    [ret |-> IF r.temps = <<>> THEN None ELSE Mean(r.temps), log |-> r.log]

(* read_cpu_temperature(connection) *)
read_cpu_temperature(connection, resps) ==
    TempResult(ReadKeysFrom(connection, resps, 1, <<>>, <<>>))

(* The calls of get_cpu_temperature up to the match, up to the lookup of   *)
(* the service, and up to the open with the release of the service.        *)
MatchLog(env) ==
    <<Call("IOServiceMatching", 0, IF env.matching THEN 1 ELSE 0)>>

ServiceLog(env) ==
    Append(MatchLog(env), Call("IOServiceGetMatchingService", 0, env.service))

(* The service released only on the path where the open succeeded. *)
OpenLog_release_after_success(env) ==
    ServiceLog(env) \o <<Call("IOServiceOpen", env.service, env.open_res)>>
        \o (IF env.open_res = 0
            THEN <<Call("IOObjectRelease", env.service, 0)>>
            ELSE <<>>)

OpenLog(env) ==
    ServiceLog(env) \o <<Call("IOServiceOpen", env.service, env.open_res),
                         Call("IOObjectRelease", env.service, 0)>>

(* let temp = read_cpu_temperature(connection)?; the session left open     *)
(* when there is no reading.                                               *)
Session_early_return(env, t) ==
    IF ~IsSome(t.ret)
    THEN [ret |-> None, log |-> OpenLog(env) \o t.log]
    ELSE [ret |-> t.ret,
          log |-> OpenLog(env) \o t.log
                  \o <<Call("IOServiceClose", env.connection, 0)>>]

(* The session of get_cpu_temperature: t is what read_cpu_temperature      *)
(* returned; the connection is closed and t's value returned.              *)
Session(env, t) ==
    [ret |-> t.ret,
     log |-> OpenLog(env) \o t.log
             \o <<Call("IOServiceClose", env.connection, 0)>>]

(* get_cpu_temperature without the test of the status of IOServiceOpen.    *)
get_cpu_temperature_open_unchecked(env) ==
    IF ~env.matching THEN [ret |-> None, log |-> MatchLog(env)]
    ELSE IF env.service = 0 THEN [ret |-> None, log |-> ServiceLog(env)]
    ELSE Session(env, read_cpu_temperature(env.connection, env.keys))

(* get_cpu_temperature(): env is the AppleSMC service as the platform      *)
(* presents it: matching (IOServiceMatching returned a dictionary),        *)
(* service (the object found, 0 for none), open_res and connection (the    *)
(* status of IOServiceOpen and the connection it stores on success), keys  *)
(* (KeyResp per candidate key).                                            *)
get_cpu_temperature(env) ==
    IF ~env.matching THEN [ret |-> None, log |-> MatchLog(env)]
    ELSE IF env.service = 0 THEN [ret |-> None, log |-> ServiceLog(env)]
    ELSE IF env.open_res # 0 THEN [ret |-> None, log |-> OpenLog(env)]
    ELSE Session(env, read_cpu_temperature(env.connection, env.keys))

---------------------------------------------------------------------------
(* Accelerator enumerator: src/system_monitor.rs and src/gpu.rs *)

(* const UTILIZATION_KEYS *)
UTILIZATION_KEYS ==
    << "Device Utilization %", "GPU Activity(%)", "GPU Core Utilization",
       "hardwareWaitTime" >>

(* usage as f32 for a non-negative i64 below 2^31: exact below 2^24, else  *)
(* rounded to 24 significant bits, ties to even.                           *)
RECURSIVE Ulp(_, _)
Ulp(n, q) == IF n < 16777216 * q THEN q ELSE Ulp(n, 2 * q)

I64AsF32(n) ==
    LET q == Ulp(n, 1)
        r == n % q
        base == n - r
    IN  IF 2 * r > q \/ (2 * r = q /\ (base \div q) % 2 = 1)
        THEN Num(base + q)
        ELSE Num(base)

(* One value of a performance-statistics dictionary (environment):         *)
(* kind "absent" (find returns None), "other" (present, not a CFNumber),   *)
(* or "number" with what to_f32() and to_i64() return (None when the       *)
(* conversion is refused as lossy; i64 is the integer itself).             *)
Absent == [kind |-> "absent", f32 |-> None, i64ok |-> FALSE, i64 |-> 0]
NotNumber == [kind |-> "other", f32 |-> None, i64ok |-> FALSE, i64 |-> 0]
NumberF32(v) == [kind |-> "number", f32 |-> v, i64ok |-> FALSE, i64 |-> 0]
NumberI64(i) == [kind |-> "number", f32 |-> None, i64ok |-> TRUE, i64 |-> i]
NumberLossy == [kind |-> "number", f32 |-> None, i64ok |-> FALSE, i64 |-> 0]

(* The loop over UTILIZATION_KEYS keeping the value of the last usable key. *)
RECURSIVE ScanUtilizationKeys_last_key(_, _)
ScanUtilizationKeys_last_key(perf_dict, i) ==
    IF i > Len(UTILIZATION_KEYS) THEN None
    ELSE IF IsSome(ScanUtilizationKeys_last_key(perf_dict, i + 1))
    THEN ScanUtilizationKeys_last_key(perf_dict, i + 1)
    ELSE IF perf_dict[UTILIZATION_KEYS[i]].kind # "number" THEN None
    ELSE IF IsSome(perf_dict[UTILIZATION_KEYS[i]].f32)
    THEN perf_dict[UTILIZATION_KEYS[i]].f32
    ELSE IF perf_dict[UTILIZATION_KEYS[i]].i64ok
    THEN I64AsF32(perf_dict[UTILIZATION_KEYS[i]].i64)
    ELSE None

(* The loop over UTILIZATION_KEYS from key i on: the first key that is     *)
(* present, a CFNumber and convertible decides.                            *)
RECURSIVE ScanUtilizationKeys(_, _)
ScanUtilizationKeys(perf_dict, i) ==
    IF i > Len(UTILIZATION_KEYS) THEN None
    ELSE LET value == perf_dict[UTILIZATION_KEYS[i]]
         IN  IF value.kind = "number" /\ IsSome(value.f32) THEN value.f32
             ELSE IF value.kind = "number" /\ value.i64ok
             THEN I64AsF32(value.i64)
             ELSE ScanUtilizationKeys(perf_dict, i + 1)

(* get_gpu_entry_usage(entry) of system_monitor.rs.  The entry (environment) *)
(* holds props_res and props_null, the status of                           *)
(* IORegistryEntryCreateCFProperties and whether it left the pointer null, *)
(* has_perf (the dictionary has "PerformanceStatistics") and perf_dict.    *)
get_gpu_entry_usage(entry) ==
    LET c == <<Call("IORegistryEntryCreateCFProperties", entry.id,
                    entry.props_res)>>
        drop == <<Call("CFRelease", entry.id, 0)>>
    IN  IF entry.props_res # KERN_SUCCESS \/ entry.props_null
        THEN [ret |-> None, log |-> c]
        ELSE IF ~entry.has_perf
        THEN [ret |-> None, log |-> c \o drop]
        ELSE [ret |-> ScanUtilizationKeys(entry.perf_dict, 1),
              log |-> c \o drop]

(* The properties of the entry can be read and hold PerformanceStatistics. *)
HasStatistics(entry) ==
    entry.props_res = KERN_SUCCESS /\ ~entry.props_null /\ entry.has_perf

RECURSIVE GpuLoop(_, _, _, _, _, _)

(* The body of the loop going on to the next entry, past the release, when *)
(* an entry yields no usage.                                               *)
GpuLoopStep_continue_past_release(iterator, entries, i, total_usage, gpu_count, log, u) ==
    GpuLoop(iterator, entries, i + 1,
            IF IsSome(u.ret) THEN RatAdd(total_usage, u.ret) ELSE total_usage,
            IF IsSome(u.ret) THEN gpu_count + 1 ELSE gpu_count,
            log \o <<Call("IOIteratorNext", iterator, entries[i].id)>>
                \o u.log
                \o (IF IsSome(u.ret)
                    THEN <<Call("IOObjectRelease", entries[i].id, 0)>>
                    ELSE <<>>))

(* The body of the loop ending the enumeration at an entry that yields no  *)
(* usage, as get_gpu_entry_usage(entry)? would.                            *)
GpuLoopStep_stop_at_unreadable(iterator, entries, i, total_usage, gpu_count, log, u) ==
    IF IsSome(u.ret)
    THEN GpuLoop(iterator, entries, i + 1, RatAdd(total_usage, u.ret),
                 gpu_count + 1,
                 log \o <<Call("IOIteratorNext", iterator, entries[i].id)>>
                     \o u.log
                     \o <<Call("IOObjectRelease", entries[i].id, 0)>>)
    ELSE [total_usage |-> total_usage, gpu_count |-> gpu_count,
          log |-> log \o <<Call("IOIteratorNext", iterator, entries[i].id)>>
                      \o u.log
                      \o <<Call("IOObjectRelease", entries[i].id, 0)>>]

(* The body of the enumeration loop for entry i, u being what              *)
(* get_gpu_entry_usage returned for it: the usage is added when there is   *)
(* one, and the entry is released.                                         *)
GpuLoopStep(iterator, entries, i, total_usage, gpu_count, log, u) ==
    GpuLoop(iterator, entries, i + 1,
            IF IsSome(u.ret) THEN RatAdd(total_usage, u.ret) ELSE total_usage,
            IF IsSome(u.ret) THEN gpu_count + 1 ELSE gpu_count,
            log \o <<Call("IOIteratorNext", iterator, entries[i].id)>>
                \o u.log
                \o <<Call("IOObjectRelease", entries[i].id, 0)>>)

(* The enumeration loop of system_monitor.rs get_gpu_usage from entry i on. *)
GpuLoop(iterator, entries, i, total_usage, gpu_count, log) ==
    IF i > Len(entries)
    THEN [total_usage |-> total_usage, gpu_count |-> gpu_count,
          log |-> Append(log, Call("IOIteratorNext", iterator, 0))]
    ELSE GpuLoopStep(iterator, entries, i, total_usage, gpu_count, log,
                     get_gpu_entry_usage(entries[i]))

(* The calls of get_gpu_usage up to the match and up to the iterator. *)
GpuMatchLog(env) ==
    <<Call("IOServiceMatching", 0, IF env.matching THEN 1 ELSE 0)>>

GpuServicesLog(env) ==
    Append(GpuMatchLog(env),
           Call("IOServiceGetMatchingServices", 0, env.services_res))

(* The end of get_gpu_usage dividing the total by the number of entries    *)
(* enumerated.                                                             *)
GpuResult_over_all_entries(env, r) ==
    [ret |-> IF r.gpu_count > 0
             THEN RatDivInt(r.total_usage, Len(env.entries))
             ELSE None,
     log |-> Append(r.log, Call("IOObjectRelease", env.iterator, 0))]

(* The end of get_gpu_usage, r being the totals of the loop: the iterator  *)
(* is released and the mean returned, none for a count of zero.            *)
GpuResult(env, r) ==
    [ret |-> IF r.gpu_count > 0
             THEN RatDivInt(r.total_usage, r.gpu_count)
             ELSE None,
     log |-> Append(r.log, Call("IOObjectRelease", env.iterator, 0))]

(* get_gpu_usage() of system_monitor.rs: env is the IOAccelerator class as *)
(* the platform presents it: matching, services_res (status of             *)
(* IOServiceGetMatchingServices), iterator and the entries it yields.      *)
get_gpu_usage(env) ==
    IF ~env.matching THEN [ret |-> None, log |-> GpuMatchLog(env)]
    ELSE IF env.services_res # KERN_SUCCESS
    THEN [ret |-> None, log |-> GpuServicesLog(env)]
    ELSE GpuResult(env, GpuLoop(env.iterator, env.entries, 1, Num(0), 0,
                                GpuServicesLog(env)))

RECURSIVE GpuModuleLoop(_, _, _, _, _, _)

(* The body of the enumeration loop of gpu.rs for entry i, usage being     *)
(* what the inline property read and key scan gave.                        *)
GpuModuleLoopStep(iterator, entries, i, total_usage, gpu_count, log, usage) ==
    GpuModuleLoop(iterator, entries, i + 1,
            IF IsSome(usage) THEN RatAdd(total_usage, usage) ELSE total_usage,
            IF IsSome(usage) THEN gpu_count + 1 ELSE gpu_count,
            log \o <<Call("IOIteratorNext", iterator, entries[i].id),
                     Call("IORegistryEntryCreateCFProperties",
                          entries[i].id, entries[i].props_res)>>
                \o (IF entries[i].props_res = KERN_SUCCESS
                       /\ ~entries[i].props_null
                    THEN <<Call("CFRelease", entries[i].id, 0)>>
                    ELSE <<>>)
                \o <<Call("IOObjectRelease", entries[i].id, 0)>>)

(* The enumeration loop of gpu.rs get_gpu_usage, whose body holds the      *)
(* property read and the key scan inline.                                  *)
GpuModuleLoop(iterator, entries, i, total_usage, gpu_count, log) ==
    IF i > Len(entries)
    THEN [total_usage |-> total_usage, gpu_count |-> gpu_count,
          log |-> Append(log, Call("IOIteratorNext", iterator, 0))]
    ELSE GpuModuleLoopStep(iterator, entries, i, total_usage, gpu_count, log,
             IF entries[i].props_res = KERN_SUCCESS /\ ~entries[i].props_null
                /\ entries[i].has_perf
             THEN ScanUtilizationKeys(entries[i].perf_dict, 1)
             ELSE None)

(* get_gpu_usage() of gpu.rs *)
gpu_get_gpu_usage(env) ==
    IF ~env.matching THEN [ret |-> None, log |-> GpuMatchLog(env)]
    ELSE IF env.services_res # KERN_SUCCESS
    THEN [ret |-> None, log |-> GpuServicesLog(env)]
    ELSE GpuResult(env, GpuModuleLoop(env.iterator, env.entries, 1, Num(0), 0,
                                      GpuServicesLog(env)))

---------------------------------------------------------------------------
(* Stats aggregator: src/system_monitor.rs collect_stats, src/app.rs *)

SYSTEM_INFO_REFRESH_MS == 1000

(* struct SystemStats *)
SystemStats(cpu, gpu, ram, temp) ==
    [cpu_usage |-> cpu, gpu_usage |-> gpu, ram_usage |-> ram, cpu_temp |-> temp]

(* #[derive(Default)] for SystemStats *)
SystemStatsDefault == SystemStats(Num(0), None, Num(0), None)

(* The percentage left as a fraction: used_mem / total_mem. *)
RamUsage_no_percent(o) == IF o.total > 0 THEN Rat(o.used, o.total) ELSE Num(0)

(* ram_usage of collect_stats: (used_mem / total_mem) * 100.0, 0.0 for a   *)
(* total of zero.                                                          *)
RamUsage(o) == IF o.total > 0 THEN Rat(o.used * 100, o.total) ELSE Num(0)

(* collect_stats as the build for the other platforms has it: the two      *)
(* sysinfo refreshes, and the accelerators and the sensors are not asked.  *)
collect_stats_fallback(o, genv, senv) ==
    [ret |-> SystemStats(Num(o.cpu), None, RamUsage(o), None),
     log |-> <<Call("refresh_cpu_all", 0, 0), Call("refresh_memory", 0, 0)>>]

(* The snapshot with the temperature asked for only when the accelerators  *)
(* gave a usage.                                                           *)
AssembleStats_temp_needs_gpu(o, g, t) ==
    [ret |-> SystemStats(Num(o.cpu), g.ret, RamUsage(o),
                         IF IsSome(g.ret) THEN t.ret ELSE None),
     log |-> <<Call("refresh_cpu_all", 0, 0), Call("refresh_memory", 0, 0)>>
             \o g.log \o t.log]

(* The snapshot with a zero for a metric that is not available. *)
AssembleStats_zero_for_missing(o, g, t) ==
    [ret |-> SystemStats(Num(o.cpu),
                         IF IsSome(g.ret) THEN g.ret ELSE Num(0), RamUsage(o),
                         IF IsSome(t.ret) THEN t.ret ELSE Num(0)),
     log |-> <<Call("refresh_cpu_all", 0, 0), Call("refresh_memory", 0, 0)>>
             \o g.log \o t.log]

(* The value collect_stats builds, g and t being what get_gpu_usage and    *)
(* get_cpu_temperature returned.                                           *)
AssembleStats(o, g, t) ==
    [ret |-> SystemStats(Num(o.cpu), g.ret, RamUsage(o), t.ret),
     log |-> <<Call("refresh_cpu_all", 0, 0), Call("refresh_memory", 0, 0)>>
             \o g.log \o t.log]

(* collect_stats leaving the sensors out: no temperature in the snapshot. *)
collect_stats_without_sensors(o, genv, senv) ==
    AssembleStats(o, get_gpu_usage(genv), [ret |-> None, log |-> <<>>])

(* collect_stats(system) on macOS: the two sysinfo refreshes, then the     *)
(* fields in the order they are written.                                   *)
collect_stats(o, genv, senv) ==
    AssembleStats(o, get_gpu_usage(genv), get_cpu_temperature(senv))

REPAINT_INTERVAL_SECS == 1

(* The throttle measuring from the last call instead of the last pass: it  *)
(* is due only when no call was answered from the cache since.             *)
RefreshDue_since_last_call(now, last) ==
    now - last > SYSTEM_INFO_REFRESH_MS /\ last_call.calls > 0

(* The throttle with >= for >: due as soon as the interval has elapsed. *)
RefreshDue_inclusive(now, last) == now - last >= SYSTEM_INFO_REFRESH_MS

(* The throttle built from the wrong constant, the repaint interval taken  *)
(* as milliseconds.                                                        *)
RefreshDue_wrong_constant(now, last) == now - last > REPAINT_INTERVAL_SECS

(* self.last_system_refresh.elapsed() > Duration::from_millis(..) *)
RefreshDue(now, last) == now - last > SYSTEM_INFO_REFRESH_MS

---------------------------------------------------------------------------
(* Status bar: src/ui.rs render_status_bar *)

(* n / d (n >= 0, d > 0) rounded to an integer, ties to even. *)
RoundHalfEven(n, d) ==
    LET q == n \div d
        r == n % d
    IN  IF 2 * r > d \/ (2 * r = d /\ q % 2 = 1) THEN q + 1 ELSE q

(* The sign format! writes before the digits. *)
SignText(v) == IF v.n < 0 THEN "-" ELSE ""

(* format!("{:.0}", v) for a number v: the value rounded to an integer,    *)
(* ties to even.                                                           *)
Fixed0(v) == SignText(v) \o ToString(RoundHalfEven(Abs(v.n), v.d))

(* The digits of m tenths. *)
TenthsText(m) == ToString(m \div 10) \o "." \o ToString(m % 10)

(* format!("{:.1}", v) for a number v: the value rounded to one decimal,   *)
(* ties to even. The classes tiny and huge of the raw float decoding do    *)
(* not pass the band check and are not formatted.                          *)
Fixed1(v) ==
    CASE v.k = "num" -> SignText(v) \o TenthsText(RoundHalfEven(Abs(v.n) * 10, v.d))
      [] v.k = "nan" -> "NaN"
      [] v.k = "inf" -> SignText(v) \o "inf"

(* An absent usage written as a zero: .unwrap_or(0.0) before formatting. *)
GpuText_zero_for_absent(gpu) ==
    Fixed1(IF IsSome(gpu) THEN gpu ELSE Num(0)) \o "%"

(* stats.gpu_usage.map(|u| format!("{:.1}%", u)).unwrap_or_else(|| "N/A") *)
GpuText(gpu) == IF IsSome(gpu) THEN Fixed1(gpu) \o "%" ELSE "N/A"

(* stats.cpu_temp.map(|t| format!("{:.0}°C", t)).unwrap_or_else(|| "N/A") *)
TempText(temp) == IF IsSome(temp) THEN Fixed0(temp) \o "°C" ELSE "N/A"

(* The label of render_status_bar: the four texts and the line made of     *)
(* them, "CPU: {:.1}% | GPU: {} | RAM: {:.1}% | Temp: {}".                 *)
StatusBarLabel(cpu, gpu, ram, temp) ==
    [cpu |-> cpu, gpu |-> gpu, ram |-> ram, temp |-> temp,
     label |-> "CPU: " \o cpu \o " | GPU: " \o gpu \o " | RAM: " \o ram
               \o " | Temp: " \o temp]

render_status_bar(stats) ==
    StatusBarLabel(Fixed1(stats.cpu_usage) \o "%", GpuText(stats.gpu_usage),
                   Fixed1(stats.ram_usage) \o "%", TempText(stats.cpu_temp))

---------------------------------------------------------------------------
(* Environment: what the platform may answer *)

MaxLiveKeys == 2        \* keys of TEMP_KEYS that answer READ_KEYINFO at once
MaxGpus == 2            \* accelerator entries the iterator yields
MaxHalfIntervals == 5   \* the clock runs to MaxHalfIntervals half intervals
MaxPassMs == 1          \* longest time one refresh pass takes
MaxThrottled == 1       \* throttled calls counted between two passes

InfoSp78 == SMCKeyInfoData(2, fourcc_to_u32(FourCC("s", "p", "7", "8")), 0)
InfoFlt == SMCKeyInfoData(4, fourcc_to_u32(FourCC("f", "l", "t", " ")), 0)
InfoUi8 == SMCKeyInfoData(1, fourcc_to_u32(FourCC("u", "i", "8", " ")), 0)

(* A key the service does not know: READ_KEYINFO fails. *)
Dead == KeyResp(1, SMCKeyInfoDefault, 1, SMCKeyInfoDefault, <<>>)
(* READ_KEYINFO succeeds, READ_BYTES fails. *)
ReadFails == KeyResp(0, InfoSp78, 1, SMCKeyInfoDefault, <<>>)
(* sp78 45.5, the READ_BYTES output repeating the key_info. *)
Sp78Warm == KeyResp(0, InfoSp78, 0, InfoSp78, <<45, 128>>)
(* sp78 45.5, the READ_BYTES output with a zeroed key_info. *)
Sp78Zeroed == KeyResp(0, InfoSp78, 0, SMCKeyInfoDefault, <<45, 128>>)
(* sp78 15.0: decodable, below the plausible band. *)
Sp78Cold == KeyResp(0, InfoSp78, 0, InfoSp78, <<15, 0>>)
(* flt 42.5 = 0x422A0000 *)
FltWarm == KeyResp(0, InfoFlt, 0, InfoFlt, <<66, 42, 0, 0>>)
(* an unknown type whose first byte is 200: not decodable *)
Ui8Bad == KeyResp(0, InfoUi8, 0, InfoUi8, <<200>>)

(* sp78 20.0, 60.0, 70.0 and 80.0 *)
Sp78At20 == KeyResp(0, InfoSp78, 0, InfoSp78, <<20, 0>>)
Sp78At60 == KeyResp(0, InfoSp78, 0, InfoSp78, <<60, 0>>)
Sp78At70 == KeyResp(0, InfoSp78, 0, InfoSp78, <<70, 0>>)
Sp78At80 == KeyResp(0, InfoSp78, 0, InfoSp78, <<80, 0>>)
(* flt 109.9 = 0x42DBCCCD, the f32 nearest to 109.9 *)
FltBelow110 == KeyResp(0, InfoFlt, 0, InfoFlt, <<66, 219, 204, 205>>)
(* flt 110.0 = 0x42DC0000 *)
Flt110 == KeyResp(0, InfoFlt, 0, InfoFlt, <<66, 220, 0, 0>>)

LiveResps ==
    {ReadFails, Sp78Warm, Sp78Zeroed, Sp78Cold, FltWarm, Ui8Bad, Sp78At20,
     FltBelow110, Flt110}

(* The positions of TEMP_KEYS that may be alive: the first and the fourth   *)
(* key, the first Intel key and the last key.                              *)
LiveSlots == {1, 4, 10, Len(TEMP_KEYS)}

(* All keys dead but at most n of LiveSlots, which answer with one of      *)
(* LiveResps.                                                              *)
KeyConfigs(n) ==
    UNION { { [i \in KeyIndex |-> IF i \in S THEN f[i] ELSE Dead] :
              f \in [S -> LiveResps] } :
            S \in {T \in SUBSET LiveSlots : Cardinality(T) <= n} }

AllDead == [i \in KeyIndex |-> Dead]

(* Three sensors alive at once, each reading 60.0, 70.0 or 80.0. *)
WarmResps == {Sp78At60, Sp78At70, Sp78At80}

WarmConfigs ==
    { [AllDead EXCEPT ![1] = a, ![4] = b, ![10] = c] :
        a \in WarmResps, b \in WarmResps, c \in WarmResps }

SmcEnv(matching, service, open_res, keys) ==
    [matching |-> matching, service |-> service, open_res |-> open_res,
     connection |-> 9, keys |-> keys]

(* The service reachable with up to MaxLiveKeys live keys or with the      *)
(* three warm sensors; and not                                             *)
(* matched, absent, or refusing the open, with up to one live key.         *)
SmcEnvs ==
    {SmcEnv(TRUE, 7, 0, k) : k \in KeyConfigs(MaxLiveKeys) \cup WarmConfigs}
    \cup {SmcEnv(FALSE, 7, 0, k) : k \in KeyConfigs(1)}
    \cup {SmcEnv(TRUE, 0, 0, k) : k \in KeyConfigs(1)}
    \cup {SmcEnv(TRUE, 7, 1, k) : k \in KeyConfigs(1)}

PerfDict(v1, v2, v3, v4) ==
    [n \in {UTILIZATION_KEYS[i] : i \in 1..Len(UTILIZATION_KEYS)} |->
        CASE n = UTILIZATION_KEYS[1] -> v1
          [] n = UTILIZATION_KEYS[2] -> v2
          [] n = UTILIZATION_KEYS[3] -> v3
          [] OTHER -> v4]

NoDict == PerfDict(Absent, Absent, Absent, Absent)

Device(props_res, props_null, has_perf, perf_dict) ==
    [props_res |-> props_res, props_null |-> props_null,
     has_perf |-> has_perf, perf_dict |-> perf_dict]

(* The accelerator devices of the model, one per branch of                 *)
(* get_gpu_entry_usage: properties unreadable (by status, by a null        *)
(* pointer), no PerformanceStatistics, no utilization key, a value under   *)
(* the first key, a non-number before an out-of-range value, a number      *)
(* that converts to neither type before an integer that only converts to   *)
(* i64, and values under two later keys.                                   *)
GpuDevices ==
    { Device(1, TRUE, FALSE, NoDict),
      Device(0, TRUE, FALSE, NoDict),
      Device(0, FALSE, FALSE, NoDict),
      Device(0, FALSE, TRUE, NoDict),
      Device(0, FALSE, TRUE, PerfDict(NumberF32(Num(30)), Absent, Absent, Absent)),
      Device(0, FALSE, TRUE, PerfDict(NotNumber, NumberF32(Num(250)), Absent, Absent)),
      Device(0, FALSE, TRUE, PerfDict(NumberLossy, Absent, Absent, NumberI64(16777217))),
      Device(0, FALSE, TRUE, PerfDict(Absent, NumberF32(Num(90)), NumberF32(Num(10)), Absent)) }

(* Entries as the iterator yields them: entry i of a pass has object id 10 + i. *)
EntrySeqs(n) ==
    UNION { { [i \in 1..len |->
                [id |-> 10 + i, props_res |-> f[i].props_res,
                 props_null |-> f[i].props_null, has_perf |-> f[i].has_perf,
                 perf_dict |-> f[i].perf_dict]] :
              f \in [1..len -> GpuDevices] } :
            len \in 0..n }

GpuEnv(matching, services_res, entries) ==
    [matching |-> matching, services_res |-> services_res, iterator |-> 10,
     entries |-> entries]

GpuEnvs ==
    {GpuEnv(TRUE, 0, e) : e \in EntrySeqs(MaxGpus)}
    \cup {GpuEnv(FALSE, 0, e) : e \in EntrySeqs(1)}
    \cup {GpuEnv(TRUE, 1, e) : e \in EntrySeqs(1)}

(* A call of a codec function: its name and its argument. *)
CodecCall(fn, arg) == [fn |-> fn, arg |-> arg]

NoCodecCall == CodecCall("none", <<>>)

(* The payloads given to parse_temperature_value: every first byte, second *)
(* bytes around the sign bit and the ends and the second byte of 42.5, and *)
(* third and fourth bytes all zeros or all ones; the rest of the buffer is *)
(* zero.                                                                   *)
LeadBytes == 0..255
SecondBytes == {0, 1, 42, 127, 128, 255}
TailBytes == {0, 255}

(* The type tags: the two the decoder knows, an unknown one, and zero. *)
WireTypes == {InfoSp78, InfoFlt, InfoUi8, SMCKeyInfoDefault}

CodecData ==
    { SMCKeyData(0, t, 0, PadBytes(<<b0, b1, b2, b3>>)) :
        t \in WireTypes, b0 \in LeadBytes, b1 \in SecondBytes,
        b2 \in TailBytes, b3 \in TailBytes }

(* The 4-character ASCII names given to fourcc_to_u32: the ends of the     *)
(* ASCII range and two letters in every position.                          *)
KeyChars == {0, 1, 84, 112, 127}

CodecKeys == {<<a, b, c, d>> : a \in KeyChars, b \in KeyChars,
                               c \in KeyChars, d \in KeyChars}

CodecInputs ==
    {CodecCall("parse_temperature_value", d) : d \in CodecData}
    \cup {CodecCall("fourcc_to_u32", k) : k \in CodecKeys}

(* The files the user can pick and what they hold: a file that reads as    *)
(* "old", and one that cannot be read.                                     *)
Paths == {"a.txt", "b.txt"}
Unreadable == "unreadable"
InitialDisk == [p \in Paths |-> IF p = "a.txt" THEN "old" ELSE Unreadable]

(* The instants the model looks at: every half interval and 1 ms after it, *)
(* so that elapsed times just below, at and just above the interval occur. *)
TimePoints ==
    {h * (SYSTEM_INFO_REFRESH_MS \div 2) + j : h \in 0..MaxHalfIntervals, j \in 0..1}

OsState(cpu, used, total) == [cpu |-> cpu, used |-> used, total |-> total]

OsStates == {OsState(10, 0, 0), OsState(50, 4, 8)}

(* The hardware of the application-level model: the service absent, only   *)
(* the fourth key alive, or only an implausible first key; the enumeration *)
(* refused, one device at 30, or one device reporting 250.                 *)
AppSmcEnvs ==
    { SmcEnv(TRUE, 0, 0, AllDead),
      SmcEnv(TRUE, 7, 0, [AllDead EXCEPT ![4] = Sp78Warm]),
      SmcEnv(TRUE, 7, 0, [AllDead EXCEPT ![1] = Sp78Cold]) }

AppGpuEnvs ==
    { GpuEnv(TRUE, 1, <<>>) }
    \cup { GpuEnv(TRUE, 0, e) :
             e \in { s \in EntrySeqs(1) :
                       /\ Len(s) = 1
                       /\ s[1].has_perf
                       /\ s[1].perf_dict[UTILIZATION_KEYS[3]].kind = "absent"
                       /\ s[1].perf_dict[UTILIZATION_KEYS[4]].kind = "absent"
                       /\ s[1].perf_dict # NoDict } }

(* The machine loads of the model of one collect_stats call: no memory     *)
(* reported, half, a third and all of the memory used.                     *)
StatsOsStates ==
    {OsState(10, 0, 0), OsState(50, 4, 8), OsState(25, 1, 3), OsState(100, 8, 8)}

(* The entries of the devices given, as the iterator yields them. *)
Entries(devices) ==
    [i \in 1..Len(devices) |->
        [id |-> 10 + i, props_res |-> devices[i].props_res,
         props_null |-> devices[i].props_null, has_perf |-> devices[i].has_perf,
         perf_dict |-> devices[i].perf_dict]]

(* One device at 30, and two devices at 30 and 35.5. *)
HealthyGpu ==
    GpuEnv(TRUE, 0, Entries(<<Device(0, FALSE, TRUE,
               PerfDict(NumberF32(Num(30)), Absent, Absent, Absent))>>))

HealthyGpuPair ==
    GpuEnv(TRUE, 0, Entries(<<
        Device(0, FALSE, TRUE, PerfDict(NumberF32(Num(30)), Absent, Absent, Absent)),
        Device(0, FALSE, TRUE, PerfDict(Absent, NumberF32(Rat(71, 2)), Absent, Absent))>>))

(* The accelerator service absent: no matching dictionary, or the          *)
(* enumeration refused.                                                    *)
GpuServiceAbsent(env) == ~env.matching \/ env.services_res # KERN_SUCCESS

(* The accelerators are there and the properties of none can be read. *)
GpuQueryFails(env) ==
    /\ ~GpuServiceAbsent(env)
    /\ Len(env.entries) > 0
    /\ \A i \in 1..Len(env.entries) : ~HasStatistics(env.entries[i])

(* A value that is no number the code can take: not a CFNumber, or a       *)
(* CFNumber converting to neither f32 nor i64.                             *)
NotDecodable(v) ==
    v.kind = "other" \/ (v.kind = "number" /\ ~IsSome(v.f32) /\ ~v.i64ok)

(* Some accelerator holds statistics, and every utilization value there is *)
(* cannot be decoded.                                                      *)
GpuDecodeFails(env) ==
    /\ ~GpuServiceAbsent(env)
    /\ \E i \in 1..Len(env.entries) :
          /\ HasStatistics(env.entries[i])
          /\ \E n \in DOMAIN env.entries[i].perf_dict :
                NotDecodable(env.entries[i].perf_dict[n])
    /\ \A i \in 1..Len(env.entries) :
          HasStatistics(env.entries[i]) =>
              \A n \in DOMAIN env.entries[i].perf_dict :
                  \/ env.entries[i].perf_dict[n].kind = "absent"
                  \/ NotDecodable(env.entries[i].perf_dict[n])

(* Some accelerator reports a usage that is no percentage. *)
GpuImplausible(env) ==
    /\ ~GpuServiceAbsent(env)
    /\ \E i \in 1..Len(env.entries) :
          /\ HasStatistics(env.entries[i])
          /\ \E n \in DOMAIN env.entries[i].perf_dict :
                /\ IsSome(env.entries[i].perf_dict[n].f32)
                /\ ~InRange(env.entries[i].perf_dict[n].f32, 0, 101)

(* The accelerators of the model of one collect_stats call: the two        *)
(* healthy ones, and one for each way of failing.                          *)
StatsGpuEnvs ==
    { HealthyGpu, HealthyGpuPair,
      GpuEnv(FALSE, 0, <<>>),
      GpuEnv(TRUE, 1, <<>>),
      GpuEnv(TRUE, 0, Entries(<<Device(1, TRUE, FALSE, NoDict)>>)),
      GpuEnv(TRUE, 0, Entries(<<Device(0, FALSE, TRUE,
                 PerfDict(NotNumber, NumberLossy, Absent, Absent))>>)),
      GpuEnv(TRUE, 0, Entries(<<Device(0, FALSE, TRUE,
                 PerfDict(NotNumber, NumberF32(Num(250)), Absent, Absent))>>)) }

(* Only the fourth key alive, at 45.5; and the first and the fourth, at    *)
(* 60.0 and 45.5.                                                          *)
HealthySmc == SmcEnv(TRUE, 7, 0, [AllDead EXCEPT ![4] = Sp78Warm])

HealthySmcPair ==
    SmcEnv(TRUE, 7, 0, [AllDead EXCEPT ![1] = Sp78At60, ![4] = Sp78Warm])

(* The sensor service absent: no matching dictionary, or no service. *)
SmcServiceAbsent(env) == ~env.matching \/ env.service = 0

(* The keys that answer READ_KEYINFO and READ_BYTES. *)
ReadableKeys(env) ==
    {i \in KeyIndex : env.keys[i].info_res = KERN_SUCCESS
                      /\ env.keys[i].read_res = KERN_SUCCESS}

(* The service is there, and the open or every query of a key fails. *)
SmcQueryFails(env) ==
    /\ ~SmcServiceAbsent(env)
    /\ (env.open_res # KERN_SUCCESS \/ ReadableKeys(env) = {})

(* The payload of key i as the decoder is given it. *)
Payload(env, i) ==
    SMCKeyData(0, env.keys[i].out_key_info, 0, PadBytes(env.keys[i].prefix))

(* Some key is read, and the payload of none decodes. *)
SmcDecodeFails(env) ==
    /\ ~SmcServiceAbsent(env) /\ env.open_res = KERN_SUCCESS
    /\ ReadableKeys(env) # {}
    /\ \A i \in ReadableKeys(env) : ~IsSome(parse_temperature_value(Payload(env, i)))

(* Some payload decodes, and no decoded value is in the band. *)
SmcImplausible(env) ==
    /\ ~SmcServiceAbsent(env) /\ env.open_res = KERN_SUCCESS
    /\ \E i \in ReadableKeys(env) : IsSome(parse_temperature_value(Payload(env, i)))
    /\ \A i \in ReadableKeys(env) :
          ~InRange(parse_temperature_value(Payload(env, i)), 20, 110)

(* The sensors of the model of one collect_stats call: the two healthy     *)
(* ones, and one for each way of failing.                                  *)
StatsSmcEnvs ==
    { HealthySmc, HealthySmcPair,
      SmcEnv(FALSE, 7, 0, [AllDead EXCEPT ![4] = Sp78Warm]),
      SmcEnv(TRUE, 0, 0, AllDead),
      SmcEnv(TRUE, 7, 1, [AllDead EXCEPT ![4] = Sp78Warm]),
      SmcEnv(TRUE, 7, 0, [AllDead EXCEPT ![4] = ReadFails]),
      SmcEnv(TRUE, 7, 0, [AllDead EXCEPT ![4] = Ui8Bad]),
      SmcEnv(TRUE, 7, 0, [AllDead EXCEPT ![1] = Sp78Cold]) }

---------------------------------------------------------------------------
(* Weather: src/weather.rs fetch_weather, src/app.rs, src/ui.rs            *)
(* render_title_bar                                                        *)

WEATHER_REFRESH_SECS == 600

(* Option<WeatherInfo>: None, and Some(WeatherInfo { .. }) with the icon   *)
(* as its code point.                                                      *)
NoWeather ==
    [present |-> FALSE, temperature_f |-> None, description |-> "", icon |-> 0]

WeatherInfo(temp, description, icon) ==
    [present |-> TRUE, temperature_f |-> temp, description |-> description,
     icon |-> icon]

(* The match on weather_code: the description and the icon. *)
WeatherLook(code) ==
    CASE code = 0 -> <<"Clear", 9728>>
      [] code \in 1..3 -> <<"Partly cloudy", 9925>>
      [] code \in {45, 48} -> <<"Foggy", 127787>>
      [] code \in {51, 53, 55} -> <<"Drizzle", 127783>>
      [] code \in {61, 63, 65} -> <<"Rain", 127783>>
      [] code \in {71, 73, 75} -> <<"Snow", 10052>>
      [] code = 77 -> <<"Snow grains", 10052>>
      [] code \in 80..82 -> <<"Showers", 127783>>
      [] code \in {85, 86} -> <<"Snow showers", 127784>>
      [] code = 95 -> <<"Thunderstorm", 9928>>
      [] code \in {96, 99} -> <<"Thunderstorm", 9928>>
      [] OTHER -> <<"Unknown", 9729>>

(* What the two services answer to one fetch (environment): whether the    *)
(* location request and the forecast request give JSON, whether the        *)
(* forecast has current_weather, its temperature (none when it is missing  *)
(* or no number), and whether its weathercode is missing, an integer or    *)
(* something else.                                                         *)
WeatherResp(geo_ok, forecast_ok, has_current, temperature, code_kind, weathercode) ==
    [geo_ok |-> geo_ok, forecast_ok |-> forecast_ok, has_current |-> has_current,
     temperature |-> temperature, code_kind |-> code_kind,
     weathercode |-> weathercode]

(* Some(WeatherInfo { temperature_f, description, icon }) *)
WeatherFrom(temp, look) == WeatherInfo(temp, look[1], look[2])

(* fetch_weather(): every failing step returns None; a weathercode that   *)
(* is no integer counts as 0.                                              *)
fetch_weather(resp) ==
    IF ~resp.geo_ok \/ ~resp.forecast_ok \/ ~resp.has_current
       \/ ~IsSome(resp.temperature) \/ resp.code_kind = "missing"
    THEN NoWeather
    ELSE WeatherFrom(resp.temperature,
                     WeatherLook(IF resp.code_kind = "integer"
                                 THEN resp.weathercode ELSE 0))

(* The answers of the model: each way of failing, and three forecasts. *)
WeatherResps ==
    { WeatherResp(FALSE, TRUE, TRUE, Num(70), "integer", 0),
      WeatherResp(TRUE, FALSE, TRUE, Num(70), "integer", 0),
      WeatherResp(TRUE, TRUE, FALSE, Num(70), "integer", 0),
      WeatherResp(TRUE, TRUE, TRUE, None, "integer", 0),
      WeatherResp(TRUE, TRUE, TRUE, Num(70), "missing", 0),
      WeatherResp(TRUE, TRUE, TRUE, Num(70), "integer", 0),
      WeatherResp(TRUE, TRUE, TRUE, Rat(111, 2), "other", 61),
      WeatherResp(TRUE, TRUE, TRUE, Num(33), "integer", 4) }

MaxFetches == 2         \* background fetch threads spawned, the first by new
MaxWeatherHalves == 4   \* the seconds run to MaxWeatherHalves half windows

(* The instants of the weather model: every half window and 1 s after it. *)
WeatherTimes ==
    {h * (WEATHER_REFRESH_SECS \div 2) + j : h \in 0..MaxWeatherHalves, j \in 0..1}

FetchIds == 1..MaxFetches

(* One background thread: where it is (not spawned, in fetch_weather,      *)
(* returned with Some, holding the mutex, having written, finished, or     *)
(* finished with None), when it was spawned, what fetch_weather returned,  *)
(* and the fetches that were still running when it was spawned.            *)
FetchThread(state, started, info, overlaps) ==
    [state |-> state, started |-> started, info |-> info,
     overlaps |-> overlaps]

NotSpawned == FetchThread("not spawned", 0, NoWeather, {})

Running(f) == f.state \in {"fetching", "returned", "locked", "written"}

(* No step of the weather code yet. *)
NoWeatherEvent == [op |-> "none", elapsed |-> 0, spawned |-> 0]

(* Nothing rendered yet. *)
NoTitle == [icon |-> 0, text |-> ""]

(* The weather text of render_title_bar:                                   *)
(* format!("{} {:.0}°F {}", icon, temperature_f, description), or     *)
(* "Loading..." when there is no value.                                    *)
WeatherText(w) ==
    IF w.present
    THEN [icon |-> w.icon,
          text |-> Fixed0(w.temperature_f) \o "°F " \o w.description]
    ELSE [icon |-> 0, text |-> "Loading..."]

---------------------------------------------------------------------------
(* Editor font: src/ui.rs render_menu_bar (Settings) *)

DEFAULT_EDITOR_FONT_SIZE == 14
MIN_FONT_SIZE == 8
MAX_FONT_SIZE == 48
FONT_SIZE_STEP == 1
FONT_SIZE_SMALL == 12
FONT_SIZE_MEDIUM == 14
FONT_SIZE_LARGE == 18
FONT_SIZE_EXTRA_LARGE == 24

Max(a, b) == IF a >= b THEN a ELSE b
Min(a, b) == IF a <= b THEN a ELSE b

(* The minus button with no lower limit. *)
FontMinus_unclamped(size) == size - FONT_SIZE_STEP

(* (self.font_size - FONT_SIZE_STEP).max(MIN_FONT_SIZE) *)
FontMinus(size) == Max(size - FONT_SIZE_STEP, MIN_FONT_SIZE)

(* (self.font_size + FONT_SIZE_STEP).min(MAX_FONT_SIZE) *)
FontPlus(size) == Min(size + FONT_SIZE_STEP, MAX_FONT_SIZE)

(* The presets of the Presets menu. *)
FontPresets ==
    {FONT_SIZE_SMALL, FONT_SIZE_MEDIUM, FONT_SIZE_LARGE, FONT_SIZE_EXTRA_LARGE}

(* No font button clicked yet. *)
NoFontEvent == [button |-> "none", before |-> DEFAULT_EDITOR_FONT_SIZE]

(* The weather and font fields of NotepadApp::new: no weather value, the   *)
(* first fetch spawned, the timestamp taken, and the default font size.    *)
InitView ==
    /\ now_secs = 0
    /\ weather = NoWeather
    /\ weather_lock = 0
    /\ weather_writer = 0
    /\ last_weather_fetch = 0
    /\ fetches = [i \in FetchIds |->
                    IF i = 1 THEN FetchThread("fetching", 0, NoWeather, {})
                    ELSE NotSpawned]
    /\ weather_event = NoWeatherEvent
    /\ title_weather = NoTitle
    /\ font_size = DEFAULT_EDITOR_FONT_SIZE
    /\ font_event = NoFontEvent

---------------------------------------------------------------------------
(* State machine *)

(* last_call: the operation, the time since the last performed refresh     *)
(* when it was called, and the number of foreign calls it made.            *)
LastCall(op, elapsed, calls) ==
    [op |-> op, elapsed |-> elapsed, calls |-> calls]

(* Option::None for file_path, pending_action and status_message. *)
NoPath == "none"
NoAction == "none"
NoMessage == [kind |-> "none", path |-> NoPath]

(* Nothing rendered yet. *)
NoStatusBar == [cpu |-> "", gpu |-> "", ram |-> "", temp |-> "", label |-> ""]

(* No user event handled yet. *)
NoEvent == [event |-> "none", dirty |-> FALSE, dialog |-> FALSE, saved |-> FALSE,
            did |-> "none", wrote |-> "none", read |-> "none"]

(* The document fields of NotepadApp::new, the files as they are on disk   *)
(* and the window open.                                                    *)
InitDoc ==
    /\ text = ""
    /\ file_path = NoPath
    /\ dirty = FALSE
    /\ show_unsaved_dialog = FALSE
    /\ pending_action = NoAction
    /\ status_message = NoMessage
    /\ disk = InitialDisk
    /\ window = "open"
    /\ last_event = NoEvent

(* NotepadApp::new: the timestamp is the time of construction, the cached  *)
(* values are the defaults, and the CPU counters have been read once.      *)
InitApp ==
    /\ clock = 0
    /\ last_system_refresh = 0
    /\ cpu_usage = Num(0)
    /\ gpu_usage = None
    /\ system_stats = SystemStatsDefault
    /\ io_log = <<Call("refresh_cpu_all", 0, 0)>>
    /\ temp_ret = None
    /\ gpu_ret = None
    /\ last_call = LastCall("new", 0, 1)
    /\ codec_out = None
    /\ throttled = 0
    /\ stats_ret = SystemStatsDefault
    /\ status_bar = NoStatusBar
    /\ InitDoc
    /\ InitView

Init ==
    /\ InitApp
    /\ os \in OsStates
    /\ smc \in AppSmcEnvs
    /\ gpus \in AppGpuEnvs
    /\ codec_in = NoCodecCall

(* Time passes. *)
Tick ==
    /\ \E t \in TimePoints : t > clock /\ clock' = t
    /\ UNCHANGED <<view_vars, doc_vars, throttled, stats_ret, status_bar, codec_in, codec_out, os, smc, gpus, last_system_refresh, cpu_usage, gpu_usage,
                   system_stats, io_log, temp_ret, gpu_ret, last_call>>

(* The load of the machine changes. *)
OsChange ==
    /\ \E o \in OsStates : o # os /\ os' = o
    /\ UNCHANGED <<view_vars, doc_vars, throttled, stats_ret, status_bar, codec_in, codec_out, clock, smc, gpus, last_system_refresh, cpu_usage, gpu_usage,
                   system_stats, io_log, temp_ret, gpu_ret, last_call>>

(* The sensors change. *)
SmcChange ==
    /\ \E e \in AppSmcEnvs : e # smc /\ smc' = e
    /\ UNCHANGED <<view_vars, doc_vars, throttled, stats_ret, status_bar, codec_in, codec_out, clock, os, gpus, last_system_refresh, cpu_usage, gpu_usage,
                   system_stats, io_log, temp_ret, gpu_ret, last_call>>

(* The accelerators change. *)
GpuChange ==
    /\ \E e \in AppGpuEnvs : e # gpus /\ gpus' = e
    /\ UNCHANGED <<view_vars, doc_vars, throttled, stats_ret, status_bar, codec_in, codec_out, clock, os, smc, last_system_refresh, cpu_usage, gpu_usage,
                   system_stats, io_log, temp_ret, gpu_ret, last_call>>

(* The body of refresh_system_info in src/app.rs: the CPU counters and the *)
(* accelerators are read (g is what gpu::get_gpu_usage returned) and the   *)
(* timestamp is taken when they are done, at time done.                    *)
RefreshAppFields(done, g) ==
    /\ cpu_usage' = Num(os.cpu)
    /\ gpu_usage' = g.ret
    /\ last_system_refresh' = done

(* The snapshot that render_status_bar reads as self.system_stats: the     *)
(* pass stores the result of collect_stats (c) in it.                      *)
RefreshSystemStats(c) ==
    system_stats' = c.ret

(* The foreign calls of one pass. *)
PassLog(g, c) ==
    <<Call("refresh_cpu_all", 0, 0)>> \o g.log \o c.log

(* One pass of refresh_system_info begun at time clock and done at time   *)
(* done, g and c being what the accelerators and collect_stats returned.   *)
PerformPass(done, g, c) ==
    /\ clock <= done /\ done <= clock + MaxPassMs
    /\ RefreshAppFields(done, g)
    /\ RefreshSystemStats(c)
    /\ clock' = done
    /\ io_log' = PassLog(g, c)
    /\ last_call' = LastCall("refresh_system_info",
                             clock - last_system_refresh, Len(PassLog(g, c)))
    /\ throttled' = throttled
    /\ UNCHANGED <<view_vars, doc_vars, stats_ret, status_bar, codec_in, codec_out, os, smc, gpus, temp_ret, gpu_ret>>

(* The number of calls answered from the cache in a row, this one          *)
(* included, counted up to MaxThrottled: the count starts again after a    *)
(* call that ran a pass.                                                   *)
ThrottledAfter(last, n) ==
    IF last.calls > 0 THEN 1
    ELSE IF n < MaxThrottled THEN n + 1 ELSE MaxThrottled

(* NotepadApp::refresh_system_info, called at time clock. *)
refresh_system_info ==
    IF RefreshDue(clock, last_system_refresh)
    THEN \E done \in TimePoints :
            PerformPass(done, gpu_get_gpu_usage(gpus),
                        collect_stats(os, gpus, smc))
    ELSE /\ last_call' = LastCall("refresh_system_info",
                                  clock - last_system_refresh, 0)
         /\ throttled' = ThrottledAfter(last_call, throttled)
         /\ UNCHANGED <<view_vars, doc_vars, stats_ret, status_bar, codec_in, codec_out, clock, os, smc, gpus, last_system_refresh, cpu_usage,
                        gpu_usage, system_stats, io_log, temp_ret, gpu_ret>>

Next == Tick \/ OsChange \/ SmcChange \/ GpuChange \/ refresh_system_info

Spec == Init /\ [][Next]_vars

(* One call of get_cpu_temperature against the service as it is. *)
CallCpuTemperature ==
    LET r == get_cpu_temperature(smc)
    IN  /\ temp_ret' = r.ret
        /\ io_log' = r.log
        /\ last_call' = LastCall("get_cpu_temperature",
                                 clock - last_system_refresh, Len(r.log))
        /\ UNCHANGED <<view_vars, doc_vars, throttled, stats_ret, status_bar, codec_in, codec_out, clock, os, smc, gpus, last_system_refresh, cpu_usage,
                       gpu_usage, system_stats, gpu_ret>>

InitSmc ==
    /\ InitApp
    /\ os = OsState(10, 0, 0)
    /\ smc \in SmcEnvs
    /\ gpus = GpuEnv(TRUE, 1, <<>>)
    /\ codec_in = NoCodecCall

NextSmc == CallCpuTemperature

SpecSmc == InitSmc /\ [][NextSmc]_vars

(* One call of get_gpu_usage of system_monitor.rs. *)
CallGpuUsage ==
    LET r == get_gpu_usage(gpus)
    IN  /\ gpu_ret' = r.ret
        /\ io_log' = r.log
        /\ last_call' = LastCall("get_gpu_usage",
                                 clock - last_system_refresh, Len(r.log))
        /\ UNCHANGED <<view_vars, doc_vars, throttled, stats_ret, status_bar, codec_in, codec_out, clock, os, smc, gpus, last_system_refresh, cpu_usage,
                       gpu_usage, system_stats, temp_ret>>

(* One call of get_gpu_usage of gpu.rs. *)
CallGpuModuleUsage ==
    LET r == gpu_get_gpu_usage(gpus)
    IN  /\ gpu_ret' = r.ret
        /\ io_log' = r.log
        /\ last_call' = LastCall("gpu::get_gpu_usage",
                                 clock - last_system_refresh, Len(r.log))
        /\ UNCHANGED <<view_vars, doc_vars, throttled, stats_ret, status_bar, codec_in, codec_out, clock, os, smc, gpus, last_system_refresh, cpu_usage,
                       gpu_usage, system_stats, temp_ret>>

InitGpu ==
    /\ InitApp
    /\ os = OsState(10, 0, 0)
    /\ smc = SmcEnv(TRUE, 0, 0, AllDead)
    /\ gpus \in GpuEnvs
    /\ codec_in = NoCodecCall

NextGpu == CallGpuUsage \/ CallGpuModuleUsage

SpecGpu == InitGpu /\ [][NextGpu]_vars

(* One call of parse_temperature_value on the structure given. *)
CallParseTemperatureValue ==
    /\ codec_in.fn = "parse_temperature_value"
    /\ codec_out' = parse_temperature_value(codec_in.arg)
    /\ last_call' = LastCall("parse_temperature_value", 0, 0)
    /\ UNCHANGED <<clock, os, smc, gpus, last_system_refresh, cpu_usage,
                   gpu_usage, system_stats, io_log, temp_ret, gpu_ret, codec_in,
                   throttled, stats_ret, status_bar, view_vars, doc_vars>>

(* One call of fourcc_to_u32 on the name given. *)
CallFourccToU32 ==
    /\ codec_in.fn = "fourcc_to_u32"
    /\ codec_out' = fourcc_to_u32(codec_in.arg)
    /\ last_call' = LastCall("fourcc_to_u32", 0, 0)
    /\ UNCHANGED <<clock, os, smc, gpus, last_system_refresh, cpu_usage,
                   gpu_usage, system_stats, io_log, temp_ret, gpu_ret, codec_in,
                   throttled, stats_ret, status_bar, view_vars, doc_vars>>

InitCodec ==
    /\ InitApp
    /\ os = OsState(10, 0, 0)
    /\ smc = SmcEnv(TRUE, 0, 0, AllDead)
    /\ gpus = GpuEnv(TRUE, 1, <<>>)
    /\ codec_in \in CodecInputs

NextCodec == CallParseTemperatureValue \/ CallFourccToU32

SpecCodec == InitCodec /\ [][NextCodec]_vars

(* One call of collect_stats of the macOS build, c being what it returns;  *)
(* the result is stored as the snapshot.                                   *)
CollectAndStore(op, c) ==
    /\ stats_ret' = c.ret
    /\ RefreshSystemStats(c)
    /\ io_log' = c.log
    /\ last_call' = LastCall(op, 0, Len(c.log))
    /\ UNCHANGED <<view_vars, doc_vars, clock, os, smc, gpus, last_system_refresh,
                   cpu_usage, gpu_usage, temp_ret, gpu_ret, codec_in, codec_out,
                   throttled, status_bar>>

CallCollectStats == CollectAndStore("collect_stats", collect_stats(os, gpus, smc))

(* One call of collect_stats of the build for the other platforms. *)
CallCollectStatsOther ==
    CollectAndStore("collect_stats (not macos)",
                    collect_stats_fallback(os, gpus, smc))

(* One frame of render_status_bar. *)
RenderStatusBar ==
    /\ status_bar' = render_status_bar(system_stats)
    /\ last_call' = LastCall("render_status_bar", 0, 0)
    /\ UNCHANGED <<view_vars, doc_vars, clock, os, smc, gpus, last_system_refresh,
                   cpu_usage, gpu_usage, system_stats, io_log, temp_ret,
                   gpu_ret, codec_in, codec_out, throttled, stats_ret>>

InitStats ==
    /\ InitApp
    /\ os \in StatsOsStates
    /\ smc \in StatsSmcEnvs
    /\ gpus \in StatsGpuEnvs
    /\ codec_in = NoCodecCall

NextStats == CallCollectStats \/ CallCollectStatsOther \/ RenderStatusBar

SpecStats == InitStats /\ [][NextStats]_vars

---------------------------------------------------------------------------
(* Document and unsaved-changes dialog: src/app.rs, src/ui.rs, and the     *)
(* frame of src/main.rs update                                             *)

(* The texts of the editor: empty, the content of a file, and a draft. *)
Texts == {"", "old", "draft"}

(* What a file picker returns: a path, or none when it is dismissed. *)
Picks == Paths \cup {NoPath}

(* status_message: the text and the path it names. *)
Message(kind, path) == [kind |-> kind, path |-> path]

(* The fields of NotepadApp a frame works on, with the disk and the        *)
(* window, and what the frame has done so far: whether a write succeeded   *)
(* (saved), which discarding action it performed (did), and the paths it   *)
(* gave to fs::write (wrote) and to fs::read_to_string (read).             *)
App ==
    [text |-> text, file_path |-> file_path, dirty |-> dirty,
     show_unsaved_dialog |-> show_unsaved_dialog,
     pending_action |-> pending_action, status_message |-> status_message,
     disk |-> disk, window |-> window, saved |-> FALSE, did |-> "none",
     wrote |-> NoPath, read |-> NoPath]

do_new_file(a) ==
    [a EXCEPT !.text = "", !.file_path = NoPath, !.dirty = FALSE,
              !.status_message = Message("New file created", NoPath),
              !.did = "new"]

(* do_open_file taking the path of the file before it is read. *)
do_open_file_path_before_read(a, pick) ==
    IF pick = NoPath THEN a
    ELSE IF a.disk[pick] # Unreadable
    THEN [a EXCEPT !.text = a.disk[pick], !.file_path = pick, !.dirty = FALSE,
                   !.status_message = Message("Opened", pick), !.did = "open",
                   !.read = pick]
    ELSE [a EXCEPT !.file_path = pick,
                   !.status_message = Message("Error opening file", pick),
                   !.read = pick]

(* do_open_file, pick being what pick_file returns: fs::read_to_string     *)
(* fails for a file that cannot be read.                                   *)
do_open_file(a, pick) ==
    IF pick = NoPath THEN a
    ELSE IF a.disk[pick] # Unreadable
    THEN [a EXCEPT !.text = a.disk[pick], !.file_path = pick, !.dirty = FALSE,
                   !.status_message = Message("Opened", pick), !.did = "open",
                   !.read = pick]
    ELSE [a EXCEPT !.status_message = Message("Error opening file", pick),
                   !.read = pick]

(* ctx.send_viewport_cmd(egui::ViewportCommand::Close): eframe reports the *)
(* command as close_requested() in the next frame, where it can still be   *)
(* cancelled.                                                              *)
SendClose(a) == [a EXCEPT !.window = "close_sent", !.did = "close"]

(* self.show_unsaved_dialog = true; self.pending_action = Some(action) *)
AskFirst(a, action) ==
    [a EXCEPT !.show_unsaved_dialog = TRUE, !.pending_action = action]

new_file(a) == IF a.dirty THEN AskFirst(a, "New") ELSE do_new_file(a)

open_file(a, pick) ==
    IF a.dirty THEN AskFirst(a, "Open") ELSE do_open_file(a, pick)

(* write_file taking the document for saved whether or not fs::write      *)
(* succeeded.                                                              *)
write_file_clean_after_error(a, path, ok) ==
    IF ok
    THEN [a EXCEPT !.disk[path] = a.text, !.file_path = path, !.dirty = FALSE,
                   !.status_message = Message("Saved", path), !.saved = TRUE,
                   !.wrote = path]
    ELSE [a EXCEPT !.file_path = path, !.dirty = FALSE,
                   !.status_message = Message("Error saving file", path),
                   !.wrote = path]

(* write_file(path), ok telling whether fs::write succeeds. *)
write_file(a, path, ok) ==
    IF ok
    THEN [a EXCEPT !.disk[path] = a.text, !.file_path = path, !.dirty = FALSE,
                   !.status_message = Message("Saved", path), !.saved = TRUE,
                   !.wrote = path]
    ELSE [a EXCEPT !.status_message = Message("Error saving file", path),
                   !.wrote = path]

(* save_file_as, pick being what the save dialog returns. *)
save_file_as(a, pick, ok) ==
    IF pick # NoPath THEN write_file(a, pick, ok) ELSE a

save_file(a, pick, ok) ==
    IF a.file_path # NoPath
    THEN write_file(a, a.file_path, ok)
    ELSE save_file_as(a, pick, ok)

request_exit(a) == IF a.dirty THEN AskFirst(a, "Exit") ELSE SendClose(a)

(* execute_pending_action(action): nothing for no action (if let Some). *)
execute_pending_action(a, action, pick) ==
    CASE action = "New" -> do_new_file(a)
      [] action = "Open" -> do_open_file(a, pick)
      [] action = "Exit" -> SendClose(a)
      [] OTHER -> a

(* The close request handled as if the document were dirty whenever the    *)
(* dialog is not shown.                                                    *)
handle_close_request_always_asks(a) ==
    IF ~a.show_unsaved_dialog
    THEN [AskFirst(a, "Exit") EXCEPT !.window = "open"]
    ELSE [a EXCEPT !.window = "closed", !.did = "close"]

(* The close request handled in update, close_requested() being true:      *)
(* CancelClose keeps the window open, and without it the window closes.    *)
handle_close_request(a) ==
    IF a.dirty /\ ~a.show_unsaved_dialog
    THEN [AskFirst(a, "Exit") EXCEPT !.window = "open"]
    ELSE IF a.show_unsaved_dialog
    THEN [a EXCEPT !.window = "open"]
    ELSE [a EXCEPT !.window = "closed", !.did = "close"]

(* The end of handle_unsaved_dialog with close_dialog set, the pending     *)
(* action left in place.                                                   *)
CloseDialog_keeps_pending(a) == [a EXCEPT !.show_unsaved_dialog = FALSE]

(* if close_dialog { show_unsaved_dialog = false; pending_action = None } *)
CloseDialog(a) ==
    [a EXCEPT !.show_unsaved_dialog = FALSE, !.pending_action = NoAction]

(* The rest of the Save button, s being the application after save_file    *)
(* and pending the action cloned at the top of handle_unsaved_dialog.      *)
AfterDialogSave(s, pending, open_pick) ==
    IF ~s.dirty
    THEN CloseDialog(execute_pending_action(s, pending, open_pick))
    ELSE s

(* The Save button of the dialog. *)
DialogSave(a, save_pick, ok, open_pick) ==
    AfterDialogSave(save_file(a, save_pick, ok), a.pending_action, open_pick)

(* The Don't Save button of the dialog. *)
DialogDontSave(a, open_pick) ==
    CloseDialog(execute_pending_action(a, a.pending_action, open_pick))

(* The Cancel button performing the pending action. *)
DialogCancel_performs_pending(a) ==
    CloseDialog(execute_pending_action(a, a.pending_action, NoPath))

(* The Cancel button of the dialog. *)
DialogCancel(a) == CloseDialog(a)

(* One frame of update handling the event named, r being the application   *)
(* at the end of the frame.                                                *)
Frame(event, r) ==
    /\ text' = r.text
    /\ file_path' = r.file_path
    /\ dirty' = r.dirty
    /\ show_unsaved_dialog' = r.show_unsaved_dialog
    /\ pending_action' = r.pending_action
    /\ status_message' = r.status_message
    /\ disk' = r.disk
    /\ window' = r.window
    /\ last_event' = [event |-> event, dirty |-> dirty,
                      dialog |-> show_unsaved_dialog, saved |-> r.saved,
                      did |-> r.did, wrote |-> r.wrote, read |-> r.read]
    /\ UNCHANGED <<hw_vars, view_vars>>

(* The user types in the editor: response.changed() in render_text_editor. *)
EditText ==
    /\ window = "open"
    /\ \E t \in Texts :
          /\ t # text
          /\ Frame("edit", [App EXCEPT !.text = t, !.dirty = TRUE])

(* Ctrl+N or File > New. *)
NewFile == window = "open" /\ Frame("new_file", new_file(App))

(* Ctrl+O or File > Open. *)
OpenFile ==
    /\ window = "open"
    /\ \E pick \in Picks : Frame("open_file", open_file(App, pick))

(* Ctrl+S or File > Save. *)
SaveFile ==
    /\ window = "open"
    /\ \E pick \in Picks, ok \in BOOLEAN :
          Frame("save_file", save_file(App, pick, ok))

(* Ctrl+Shift+S or File > Save As. *)
SaveFileAs ==
    /\ window = "open"
    /\ \E pick \in Picks, ok \in BOOLEAN :
          Frame("save_file_as", save_file_as(App, pick, ok))

(* File > Exit. *)
RequestExit == window = "open" /\ Frame("request_exit", request_exit(App))

(* A frame with close_requested(): the user closes the window, or the      *)
(* Close command sent in the frame before is reported.                     *)
CloseRequested ==
    /\ window \in {"open", "close_sent"}
    /\ Frame("close_requested", handle_close_request(App))

(* The buttons of the dialog, which is there when show_unsaved_dialog is   *)
(* set.                                                                    *)
ClickSave ==
    /\ window = "open" /\ show_unsaved_dialog
    /\ \E save_pick \in Picks, ok \in BOOLEAN, open_pick \in Picks :
          Frame("dialog_save", DialogSave(App, save_pick, ok, open_pick))

ClickDontSave ==
    /\ window = "open" /\ show_unsaved_dialog
    /\ \E open_pick \in Picks :
          Frame("dialog_dont_save", DialogDontSave(App, open_pick))

ClickCancel ==
    /\ window = "open" /\ show_unsaved_dialog
    /\ Frame("dialog_cancel", DialogCancel(App))

InitDocument ==
    /\ InitApp
    /\ os = OsState(10, 0, 0)
    /\ smc = SmcEnv(TRUE, 0, 0, AllDead)
    /\ gpus = GpuEnv(TRUE, 1, <<>>)
    /\ codec_in = NoCodecCall

NextDoc ==
    \/ EditText \/ NewFile \/ OpenFile \/ SaveFile \/ SaveFileAs
    \/ RequestExit \/ CloseRequested
    \/ ClickSave \/ ClickDontSave \/ ClickCancel

SpecDoc == InitDocument /\ [][NextDoc]_vars

---------------------------------------------------------------------------
(* The weather of the title bar: update() calls refresh_weather_if_needed  *)
(* in every frame, the fetch threads run beside it.                        *)

(* t.elapsed() >= Duration::from_secs(WEATHER_REFRESH_SECS) *)
WeatherDue_inclusive(now, last) == now - last >= WEATHER_REFRESH_SECS

(* t.elapsed() > Duration::from_secs(WEATHER_REFRESH_SECS); new has set    *)
(* last_weather_fetch to Some, so unwrap_or(true) is never taken.          *)
WeatherDue(now, last) == now - last > WEATHER_REFRESH_SECS

(* A thread that stores whatever fetch_weather returned. *)
AfterFetch_always_store(info) == "returned"

(* if let Some(info) = fetch_weather(): with None the thread ends. *)
AfterFetch(info) == IF info.present THEN "returned" ELSE "finished"

(* The clock moves on. *)
WeatherTick ==
    /\ \E t \in WeatherTimes : t > now_secs /\ now_secs' = t
    /\ UNCHANGED <<hw_vars, doc_vars, weather, weather_lock, weather_writer,
                   last_weather_fetch, fetches, weather_event, title_weather,
                   font_size, font_event>>

(* refresh_weather_if_needed(): when due, the timestamp is taken and the   *)
(* next thread is spawned; the guard keeps the threads within MaxFetches.  *)
RefreshWeatherIfNeeded ==
    /\ IF WeatherDue(now_secs, last_weather_fetch)
       THEN \E i \in FetchIds :
              /\ fetches[i].state = "not spawned"
              /\ \A j \in 1..(i - 1) : fetches[j].state # "not spawned"
              /\ last_weather_fetch' = now_secs
              /\ fetches' = [fetches EXCEPT ![i] =
                    FetchThread("fetching", now_secs, NoWeather,
                                {j \in FetchIds : Running(fetches[j])})]
              /\ weather_event' = [op |-> "refresh",
                                   elapsed |-> now_secs - last_weather_fetch,
                                   spawned |-> i]
       ELSE /\ weather_event' = [op |-> "refresh",
                                 elapsed |-> now_secs - last_weather_fetch,
                                 spawned |-> 0]
            /\ UNCHANGED <<last_weather_fetch, fetches>>
    /\ UNCHANGED <<hw_vars, doc_vars, now_secs, weather, weather_lock,
                   weather_writer, title_weather, font_size, font_event>>

(* fetch_weather() returns in thread i. *)
FetchReturns(i) ==
    /\ fetches[i].state = "fetching"
    /\ \E resp \in WeatherResps :
         fetches' = [fetches EXCEPT ![i] =
            [@ EXCEPT !.info = fetch_weather(resp),
                      !.state = AfterFetch(fetch_weather(resp))]]
    /\ weather_event' = [op |-> "returned", elapsed |-> 0, spawned |-> i]
    /\ UNCHANGED <<hw_vars, doc_vars, now_secs, weather, weather_lock,
                   weather_writer, last_weather_fetch, title_weather,
                   font_size, font_event>>

(* weather_clone.lock() in thread i: it waits while the mutex is held. *)
LockWeather(i) ==
    /\ fetches[i].state = "returned"
    /\ weather_lock = 0
    /\ weather_lock' = i
    /\ fetches' = [fetches EXCEPT ![i].state = "locked"]
    /\ weather_event' = [op |-> "lock", elapsed |-> 0, spawned |-> i]
    /\ UNCHANGED <<hw_vars, doc_vars, now_secs, weather, weather_writer,
                   last_weather_fetch, title_weather, font_size, font_event>>

(* *w = Some(info) in thread i. *)
StoreWeather(i) ==
    /\ fetches[i].state = "locked"
    /\ weather' = fetches[i].info
    /\ weather_writer' = i
    /\ fetches' = [fetches EXCEPT ![i].state = "written"]
    /\ weather_event' = [op |-> "store", elapsed |-> 0, spawned |-> i]
    /\ UNCHANGED <<hw_vars, doc_vars, now_secs, weather_lock,
                   last_weather_fetch, title_weather, font_size, font_event>>

(* The guard is dropped and thread i ends. *)
UnlockWeather(i) ==
    /\ fetches[i].state = "written"
    /\ weather_lock' = 0
    /\ fetches' = [fetches EXCEPT ![i].state = "finished"]
    /\ weather_event' = [op |-> "unlock", elapsed |-> 0, spawned |-> i]
    /\ UNCHANGED <<hw_vars, doc_vars, now_secs, weather, weather_writer,
                   last_weather_fetch, title_weather, font_size, font_event>>

(* render_title_bar(): the value is read under the mutex. *)
RenderTitleBar ==
    /\ weather_lock = 0
    /\ title_weather' = WeatherText(weather)
    /\ weather_event' = [op |-> "render", elapsed |-> 0, spawned |-> 0]
    /\ UNCHANGED <<hw_vars, doc_vars, now_secs, weather, weather_lock,
                   weather_writer, last_weather_fetch, fetches, font_size,
                   font_event>>

NextWeather ==
    \/ WeatherTick
    \/ RefreshWeatherIfNeeded
    \/ \E i \in FetchIds : FetchReturns(i)
    \/ \E i \in FetchIds : LockWeather(i)
    \/ \E i \in FetchIds : StoreWeather(i)
    \/ \E i \in FetchIds : UnlockWeather(i)
    \/ RenderTitleBar

SpecWeather == InitDocument /\ [][NextWeather]_vars

---------------------------------------------------------------------------
(* The font buttons of the Settings menu *)

(* The "-" button. *)
ClickFontMinus ==
    /\ font_size' = FontMinus(font_size)
    /\ font_event' = [button |-> "minus", before |-> font_size]
    /\ UNCHANGED <<hw_vars, doc_vars, now_secs, weather, weather_lock,
                   weather_writer, last_weather_fetch, fetches, weather_event,
                   title_weather>>

(* The "+" button. *)
ClickFontPlus ==
    /\ font_size' = FontPlus(font_size)
    /\ font_event' = [button |-> "plus", before |-> font_size]
    /\ UNCHANGED <<hw_vars, doc_vars, now_secs, weather, weather_lock,
                   weather_writer, last_weather_fetch, fetches, weather_event,
                   title_weather>>

(* One of the Presets buttons. *)
ClickFontPreset ==
    /\ \E size \in FontPresets : font_size' = size
    /\ font_event' = [button |-> "preset", before |-> font_size]
    /\ UNCHANGED <<hw_vars, doc_vars, now_secs, weather, weather_lock,
                   weather_writer, last_weather_fetch, fetches, weather_event,
                   title_weather>>

NextFont ==
    \/ ClickFontMinus
    \/ ClickFontPlus
    \/ ClickFontPreset

SpecFont == InitDocument /\ [][NextFont]_vars

---------------------------------------------------------------------------
(* Properties *)

(* This step is a call of refresh_system_info. *)
RefreshStep ==
    last_call' # last_call /\ last_call'.op = "refresh_system_info"

(* This step is a call of refresh_system_info that ran a pass. *)
PassStep == RefreshStep /\ last_call'.calls > 0

Elapsed == clock - last_system_refresh

(* C1: a refresh called less than SYSTEM_INFO_REFRESH_MS after the last    *)
(* performed refresh changes no cached field and no timestamp and makes no *)
(* sysinfo, accelerator or sensor call.                                    *)
C1_ThrottledRefreshIsFrame ==
    [][ (RefreshStep /\ Elapsed < SYSTEM_INFO_REFRESH_MS) =>
          /\ system_stats' = system_stats
          /\ cpu_usage' = cpu_usage
          /\ gpu_usage' = gpu_usage
          /\ last_system_refresh' = last_system_refresh
          /\ io_log' = io_log
          /\ last_call'.calls = 0 ]_vars

(* A refresh answered from the cache 999 ms after a performed pass, while  *)
(* every field a pass would compute now differs from the cached one.       *)
C1_Witness ==
    /\ last_call.op = "refresh_system_info"
    /\ last_call.calls = 0
    /\ last_call.elapsed = SYSTEM_INFO_REFRESH_MS - 1
    /\ Elapsed = SYSTEM_INFO_REFRESH_MS - 1
    /\ last_system_refresh > 0
    /\ system_stats.cpu_usage # Num(os.cpu)
    /\ system_stats.ram_usage # RamUsage(os)
    /\ system_stats.gpu_usage # get_gpu_usage(gpus).ret
    /\ system_stats.cpu_temp # get_cpu_temperature(smc).ret

---------------------------------------------------------------------------
(* Properties of the throttle *)

(* C27: a refresh answered from the cache leaves last_system_refresh as it *)
(* is, and a refresh called more than SYSTEM_INFO_REFRESH_MS after the     *)
(* last pass runs a pass, whatever number of calls were answered from the  *)
(* cache since that pass.                                                  *)
C27_ThrottledCallsKeepTimestamp ==
    [][ /\ (RefreshStep /\ last_call'.calls = 0) =>
              /\ last_system_refresh' = last_system_refresh
              /\ clock' = clock
              /\ throttled' >= 1
        /\ (RefreshStep /\ Elapsed > SYSTEM_INFO_REFRESH_MS) =>
              /\ last_call'.calls > 0
              /\ last_system_refresh' = clock'
              /\ throttled' = throttled ]_vars

(* A pass run 1001 ms after the one before it, with MaxThrottled calls or  *)
(* more answered from the cache in between.                                *)
C27_Witness ==
    /\ last_call.op = "refresh_system_info"
    /\ last_call.calls > 0
    /\ last_call.elapsed = SYSTEM_INFO_REFRESH_MS + 1
    /\ throttled = MaxThrottled
    /\ last_system_refresh = clock

---------------------------------------------------------------------------
(* Properties of one get_cpu_temperature call *)

TempCalled == last_call.op = "get_cpu_temperature"

(* Positions of the log holding a struct call with command cmd. *)
Commands(log, cmd) ==
    {i \in 1..Len(log) :
        log[i].call = "IOConnectCallStructMethod" /\ log[i].cmd = cmd}

SessionOpened(log) ==
    \E i \in 1..Len(log) : log[i].call = "IOServiceOpen" /\ log[i].res = 0

(* C3: when IOServiceOpen succeeded the connection is closed exactly once, *)
(* as the last thing the call does, also when no key gave a reading; when  *)
(* no session was opened nothing is closed.                                *)
C3_SessionClosedOnce ==
    TempCalled =>
        IF SessionOpened(io_log)
        THEN /\ CountCallsNamed(io_log, "IOServiceClose") = 1
             /\ CountCalls(io_log, "IOServiceClose", smc.connection) = 1
             /\ io_log[Len(io_log)].call = "IOServiceClose"
        ELSE CountCallsNamed(io_log, "IOServiceClose") = 0

(* A call with an open session in which no key was accepted, one of them   *)
(* failing at READ_BYTES.                                                  *)
C3_Witness ==
    /\ TempCalled
    /\ SessionOpened(io_log)
    /\ temp_ret = None
    /\ \E k \in KeyIndex : smc.keys[k] = ReadFails
    /\ CountCalls(io_log, "IOServiceClose", smc.connection) = 1

(* The index in TEMP_KEYS of a packed key. *)
KeyOf(packed) == CHOOSE k \in KeyIndex : fourcc_to_u32(TEMP_KEYS[k]) = packed

(* C5: every READ_BYTES command directly follows a READ_KEYINFO command    *)
(* for the same key that succeeded, and carries that key and the key_info  *)
(* the service answered for it.                                            *)
C5_ReadBytesCarriesKeyInfo ==
    TempCalled =>
        \A i \in Commands(io_log, SMC_CMD_READ_BYTES) :
            /\ i - 1 \in Commands(io_log, SMC_CMD_READ_KEYINFO)
            /\ io_log[i - 1].res = 0
            /\ io_log[i - 1].key = io_log[i].key
            /\ \E k \in KeyIndex : fourcc_to_u32(TEMP_KEYS[k]) = io_log[i].key
            /\ io_log[i].key_info = smc.keys[KeyOf(io_log[i].key)].key_info

(* A call that sent READ_BYTES for a float key and for an sp78 key.        *)
C5_Witness ==
    /\ TempCalled
    /\ \E i \in Commands(io_log, SMC_CMD_READ_BYTES) : io_log[i].key_info = InfoFlt
    /\ \E i \in Commands(io_log, SMC_CMD_READ_BYTES) : io_log[i].key_info = InfoSp78

(* The mean of the readings of the keys in S, none for no key. *)
RECURSIVE SumOver(_, _)
SumOver(S, reading) ==
    IF S = {} THEN Num(0)
    ELSE LET k == CHOOSE x \in S : TRUE
         IN  RatAdd(reading[k], SumOver(S \ {k}, reading))

MeanOver(S, reading) ==
    IF S = {} THEN None ELSE RatDivInt(SumOver(S, reading), Cardinality(S))

(* Keys both of whose phases succeed. *)
Answering(env) ==
    {k \in KeyIndex : env.keys[k].info_res = 0 /\ env.keys[k].read_res = 0}

(* The payload of each key decoded with the type tag of its READ_KEYINFO   *)
(* answer.                                                                 *)
DecodedByInfoType(env) ==
    [k \in KeyIndex |->
        parse_temperature_value([key_info |-> env.keys[k].key_info,
                                 bytes |-> PadBytes(env.keys[k].prefix)])]

(* The payload of each key decoded with the type tag found in the          *)
(* READ_BYTES answer.                                                      *)
DecodedByOutputType(env) ==
    [k \in KeyIndex |->
        parse_temperature_value([key_info |-> env.keys[k].out_key_info,
                                 bytes |-> PadBytes(env.keys[k].prefix)])]

Accepted(env, reading) ==
    {k \in Answering(env) : IsSome(reading[k]) /\ InRange(reading[k], 20, 110)}

(* C6: the result is the mean of the accepted readings, each decoded with  *)
(* the type tag of its key's READ_KEYINFO answer, whatever key_info the    *)
(* READ_BYTES answer holds.                                                *)
C6_DecodedWithInfoType ==
    (TempCalled /\ SessionOpened(io_log)) =>
        temp_ret = MeanOver(Accepted(smc, DecodedByInfoType(smc)),
                            DecodedByInfoType(smc))

(* C7: a key that fails at READ_KEYINFO or at READ_BYTES contributes       *)
(* nothing and does not end the scan: every key of TEMP_KEYS is sent       *)
(* READ_KEYINFO, and the result is the mean over the keys that answered    *)
(* both commands with an accepted reading (present when there is one).     *)
C7_FailedKeySkipped ==
    (TempCalled /\ SessionOpened(io_log)) =>
        /\ \A k \in KeyIndex :
              \E i \in Commands(io_log, SMC_CMD_READ_KEYINFO) :
                  io_log[i].key = fourcc_to_u32(TEMP_KEYS[k])
        /\ temp_ret = MeanOver(Accepted(smc, DecodedByOutputType(smc)),
                               DecodedByOutputType(smc))
        /\ (Accepted(smc, DecodedByOutputType(smc)) # {}) => IsSome(temp_ret)

(* The first three keys fail at READ_KEYINFO, the fourth reads 45.5, a     *)
(* later key fails at READ_BYTES, and the call returns 45.5.               *)
C7_Witness ==
    /\ TempCalled
    /\ \A k \in 1..3 : smc.keys[k].info_res # 0
    /\ smc.keys[4] = Sp78Warm
    /\ \E k \in KeyIndex : k > 4 /\ smc.keys[k] = ReadFails
    /\ temp_ret = Rat(91, 2)

(* C10: when the service is not matched or not found, or the open is       *)
(* refused, the call returns none, has tried the match and the open at     *)
(* most once each, and has sent no struct command.                         *)
C10_NoServiceNoCommands ==
    (TempCalled /\ (~smc.matching \/ smc.service = 0 \/ smc.open_res # 0)) =>
        /\ temp_ret = None
        /\ CountCallsNamed(io_log, "IOServiceMatching") <= 1
        /\ CountCallsNamed(io_log, "IOServiceGetMatchingService") <= 1
        /\ CountCallsNamed(io_log, "IOServiceOpen") <= 1
        /\ CountCallsNamed(io_log, "IOConnectCallStructMethod") = 0

(* The open was tried once and refused, with a key that would have read    *)
(* 45.5.                                                                   *)
C10_Witness ==
    /\ TempCalled
    /\ smc.matching /\ smc.service # 0 /\ smc.open_res # 0
    /\ \E k \in KeyIndex : smc.keys[k] = Sp78Warm
    /\ CountCallsNamed(io_log, "IOServiceOpen") = 1
    /\ temp_ret = None

(* The service object IOServiceGetMatchingService returned in the log,     *)
(* none for 0.                                                             *)
ServicesObtained(log) ==
    {log[i].res : i \in {j \in 1..Len(log) :
                           /\ log[j].call = "IOServiceGetMatchingService"
                           /\ log[j].res # 0}}

(* C11: the service object that IOServiceGetMatchingService returned is    *)
(* released exactly once in the call, directly after IOServiceOpen,        *)
(* whether the open succeeded or was refused, and nothing else is          *)
(* released; when no service was found nothing is released.                *)
C11_ServiceReleasedOnce ==
    TempCalled =>
        IF ServicesObtained(io_log) # {}
        THEN /\ ServicesObtained(io_log) = {smc.service}
             /\ CountCalls(io_log, "IOObjectRelease", smc.service) = 1
             /\ CountCallsNamed(io_log, "IOObjectRelease") = 1
             /\ \E i \in 2..Len(io_log) :
                   /\ io_log[i].call = "IOObjectRelease"
                   /\ io_log[i - 1].call = "IOServiceOpen"
                   /\ io_log[i - 1].obj = smc.service
        ELSE CountCallsNamed(io_log, "IOObjectRelease") = 0

(* The open was refused and the service was released once, as the last     *)
(* call.                                                                   *)
C11_Witness ==
    /\ TempCalled
    /\ smc.service # 0 /\ smc.open_res # 0
    /\ CountCalls(io_log, "IOObjectRelease", smc.service) = 1
    /\ io_log[Len(io_log)].call = "IOObjectRelease"
    /\ temp_ret = None

IsKeyInfoCommand(e) ==
    e.call = "IOConnectCallStructMethod" /\ e.cmd = SMC_CMD_READ_KEYINFO

(* The keys of the READ_KEYINFO commands of the log, in the order sent. *)
KeyInfoKeys(log) ==
    LET sent == SelectSeq(log, IsKeyInfoCommand)
    IN  [i \in 1..Len(sent) |-> sent[i].key]

(* C12: with an open session the keys of the READ_KEYINFO commands sent    *)
(* are the keys of TEMP_KEYS, in the order of the list and each once,      *)
(* whichever keys fail, are rejected or are accepted.                      *)
C12_KeysProbedInListOrder ==
    (TempCalled /\ SessionOpened(io_log)) =>
        KeyInfoKeys(io_log) = [k \in KeyIndex |-> fourcc_to_u32(TEMP_KEYS[k])]

(* A scan whose first key is rejected (15.0) and whose fourth key is       *)
(* accepted, all others failing, and that sent one READ_KEYINFO per key.   *)
C12_Witness ==
    /\ TempCalled
    /\ smc.keys[1] = Sp78Cold
    /\ smc.keys[4] = Sp78Warm
    /\ smc.keys[Len(TEMP_KEYS)] = Dead
    /\ Len(KeyInfoKeys(io_log)) = Len(TEMP_KEYS)
    /\ temp_ret = Rat(91, 2)

(* 20.0 <= t < 110.0 for a decoded value t, in integers. *)
InBand(t) == IsNum(t) /\ 20 * t.d <= t.n /\ t.n < 110 * t.d

(* The keys that answer both commands with a value inside the band. *)
BandKeys(env) ==
    {k \in Answering(env) : InBand(DecodedByOutputType(env)[k])}

(* C13: a decoded temperature contributes to the result exactly when it is *)
(* at least 20.0 and below 110.0: the result is the mean over the keys     *)
(* whose value is in the band, a value outside it is dropped and not       *)
(* replaced by a bound, so that a scan with no value in the band returns   *)
(* none.                                                                   *)
C13_BandFilter ==
    (TempCalled /\ SessionOpened(io_log)) =>
        /\ temp_ret = MeanOver(BandKeys(smc), DecodedByOutputType(smc))
        /\ (BandKeys(smc) = {}) => (temp_ret = None)
        /\ \A k \in Answering(smc) :
              DecodedByOutputType(smc)[k] \in {Num(15), Num(110)} =>
                  k \notin BandKeys(smc)

(* One key reads 109.9 and another 110.0; the call returns the 109.9.      *)
C13_Witness ==
    /\ TempCalled
    /\ \E k \in KeyIndex : smc.keys[k] = FltBelow110
    /\ \E k \in KeyIndex :
          /\ smc.keys[k] = Flt110
          /\ DecodedByOutputType(smc)[k] = Num(110)
    /\ temp_ret = Rat(14404813, 131072)

(* a * c for a rational a and an integer c. *)
RatTimesInt(a, c) == Rat(a.n * c, a.d)

(* C14: the result is the arithmetic mean of the accepted readings (the    *)
(* result times their number is their sum) and is none, not 0.0, exactly   *)
(* when no reading was accepted.                                           *)
C14_MeanOfAccepted ==
    (TempCalled /\ SessionOpened(io_log)) =>
        IF BandKeys(smc) = {}
        THEN temp_ret = None /\ temp_ret # Num(0)
        ELSE /\ IsNum(temp_ret)
             /\ RatTimesInt(temp_ret, Cardinality(BandKeys(smc)))
                    = SumOver(BandKeys(smc), DecodedByOutputType(smc))

(* Three keys read 60.0, 70.0 and 80.0 and the call returns 70.0.          *)
C14_Witness ==
    /\ TempCalled
    /\ {smc.keys[k] : k \in {1, 4, 10}} = {Sp78At60, Sp78At70, Sp78At80}
    /\ Cardinality(BandKeys(smc)) = 3
    /\ temp_ret = Num(70)

---------------------------------------------------------------------------
(* Properties of the codec functions *)

ParseCalled == last_call.op = "parse_temperature_value"

(* The type tag and the first bytes of the structure that was decoded. *)
TypeTag == codec_in.arg.key_info.data_type
Byte(i) == codec_in.arg.bytes[i + 1]

TagSp78 == fourcc_to_u32(FourCC("s", "p", "7", "8"))
TagFlt == fourcc_to_u32(FourCC("f", "l", "t", " "))

(* The 16-bit two's-complement integer whose high byte is b0 and whose low *)
(* byte is b1.                                                             *)
Int16BE(b0, b1) == b0 * 256 + b1 - (IF b0 >= 128 THEN 65536 ELSE 0)

(* C15: for the type sp78 the value decoded is the big-endian signed       *)
(* 16-bit integer made of the first two payload bytes, divided by 256; it  *)
(* is a function of these two bytes alone.                                 *)
C15_Sp78IsInt16Over256 ==
    (ParseCalled /\ TypeTag = TagSp78) =>
        /\ IsNum(codec_out)
        /\ codec_out.n * 256 = Int16BE(Byte(0), Byte(1)) * codec_out.d
        /\ codec_out = DecodeSp78(PadBytes(<<Byte(0), Byte(1)>>))

(* The bytes FF 80 followed by FF FF decoded as -0.5.                      *)
C15_Witness ==
    /\ ParseCalled /\ TypeTag = TagSp78
    /\ Byte(0) = 255 /\ Byte(1) = 128 /\ Byte(2) = 255 /\ Byte(3) = 255
    /\ codec_out = Rat(-1, 2)

(* C16 as stated: sp78 bytes 19 80 decode to 25.0 and FF 00 to -1.0.       *)
C16_Sp78ExamplesAsStated ==
    (ParseCalled /\ TypeTag = TagSp78) =>
        /\ (Byte(0) = 25 /\ Byte(1) = 128) => codec_out = Num(25)
        /\ (Byte(0) = 255 /\ Byte(1) = 0) => codec_out = Num(-1)

(* C16 amended: sp78 bytes 19 80 (6528 / 256) decode to 25.5, bytes 19 00  *)
(* (6400 / 256) to 25.0, and FF 00 to -1.0.                                *)
C16_Sp78Examples ==
    (ParseCalled /\ TypeTag = TagSp78) =>
        /\ (Byte(0) = 25 /\ Byte(1) = 128) => codec_out = Rat(51, 2)
        /\ (Byte(0) = 25 /\ Byte(1) = 0) => codec_out = Num(25)
        /\ (Byte(0) = 255 /\ Byte(1) = 0) => codec_out = Num(-1)

(* The bytes 19 80 decoded as 25.5.                                        *)
C16_Witness ==
    /\ ParseCalled /\ TypeTag = TagSp78
    /\ Byte(0) = 25 /\ Byte(1) = 128
    /\ codec_out = Rat(51, 2)

(* C17: for a type tag that is neither sp78 nor flt the first payload byte *)
(* is returned as a number when it is below 150, and nothing is returned   *)
(* when it is 150 or more; the other bytes play no part.                   *)
C17_FallbackFirstByte ==
    (ParseCalled /\ TypeTag \notin {TagSp78, TagFlt}) =>
        IF Byte(0) < 150
        THEN codec_out = Num(Byte(0))
        ELSE codec_out = None

(* A ui8 payload whose first byte is 149, followed by FF bytes, decoded as *)
(* 149.                                                                    *)
C17_Witness ==
    /\ ParseCalled /\ TypeTag = InfoUi8.data_type
    /\ Byte(0) = 149 /\ Byte(1) = 255 /\ Byte(2) = 255
    /\ codec_out = Num(149)

(* The 32 bits of the first four payload bytes read most significant      *)
(* first: bit 31 is the sign, bits 30..23 the biased exponent, bits 22..0  *)
(* the fraction.                                                           *)
F32SignBit == Byte(0) \div 128
F32Exponent == ((Byte(0) * 256 + Byte(1)) \div 128) % 256
F32Fraction == (Byte(1) * 65536 + Byte(2) * 256 + Byte(3)) % 8388608

(* C25: for the flt wire type a value is always returned, and it is the    *)
(* 32-bit float whose big-endian encoding is the first four payload bytes: *)
(* for a biased exponent e in 127..133 it is                               *)
(* (-1)^sign * (1 + fraction / 2^23) * 2^(e - 127), for exponent 255 it is *)
(* an infinity or not a number, below 127 its magnitude is below 1, from   *)
(* 134 on at least 128; the bytes 42 2A 00 00 of 42.5 give exactly 42.5.   *)
C25_FloatBigEndian ==
    (ParseCalled /\ TypeTag = TagFlt) =>
        /\ IsSome(codec_out)
        /\ F32Exponent \in 127..133 =>
              codec_out = Rat((IF F32SignBit = 1 THEN -1 ELSE 1)
                                * (8388608 + F32Fraction)
                                * 2 ^ (F32Exponent - 127), 8388608)
        /\ F32Exponent = 255 =>
              codec_out.k = (IF F32Fraction = 0 THEN "inf" ELSE "nan")
        /\ F32Exponent < 127 => codec_out.k = "tiny"
        /\ F32Exponent \in 134..254 => codec_out.k = "huge"
        /\ (Byte(0) = 66 /\ Byte(1) = 42 /\ Byte(2) = 0 /\ Byte(3) = 0) =>
              codec_out = Rat(85, 2)

(* The bytes 42 2A 00 00 with the flt tag decoded as 42.5.                 *)
C25_Witness ==
    /\ ParseCalled /\ TypeTag = TagFlt
    /\ Byte(0) = 66 /\ Byte(1) = 42 /\ Byte(2) = 0 /\ Byte(3) = 0
    /\ codec_out = Rat(85, 2)

PackCalled == last_call.op = "fourcc_to_u32"

(* C18: the key packed from a 4-character ASCII name holds the characters  *)
(* from the most significant byte down, packing the same name again gives  *)
(* the same key, and no other name gives it.                               *)
C18_PackKeyBigEndianInjective ==
    PackCalled =>
        /\ codec_out \div 16777216 = codec_in.arg[1]
        /\ (codec_out \div 65536) % 256 = codec_in.arg[2]
        /\ (codec_out \div 256) % 256 = codec_in.arg[3]
        /\ codec_out % 256 = codec_in.arg[4]
        /\ fourcc_to_u32(codec_in.arg) = codec_out
        /\ \A k \in CodecKeys :
              k # codec_in.arg => fourcc_to_u32(k) # codec_out

(* The name with the characters 84, 112, 127, 1 packed as 0x54707F01.      *)
C18_Witness ==
    /\ PackCalled
    /\ codec_in.arg = <<84, 112, 127, 1>>
    /\ codec_out = 1416658689

---------------------------------------------------------------------------
(* Properties of one get_gpu_usage call *)

GpuCalled == last_call.op \in {"get_gpu_usage", "gpu::get_gpu_usage"}

(* The objects IOIteratorNext returned in the log. *)
Yielded(log) ==
    {log[i].res : i \in {j \in 1..Len(log) :
                           log[j].call = "IOIteratorNext" /\ log[j].res # 0}}

IteratorObtained(log) ==
    \E i \in 1..Len(log) :
        log[i].call = "IOServiceGetMatchingServices" /\ log[i].res = KERN_SUCCESS

(* C4: every entry the iterator yielded is released exactly once, and the  *)
(* iterator, when it was obtained, exactly once, as the last call; all     *)
(* entries are visited whatever branch each one takes, and nothing else    *)
(* is released.                                                            *)
C4_EntriesAndIteratorReleasedOnce ==
    GpuCalled =>
        IF IteratorObtained(io_log)
        THEN /\ Yielded(io_log) = {gpus.entries[i].id : i \in 1..Len(gpus.entries)}
             /\ \A e \in Yielded(io_log) : CountCalls(io_log, "IOObjectRelease", e) = 1
             /\ CountCalls(io_log, "IOObjectRelease", gpus.iterator) = 1
             /\ io_log[Len(io_log)] = Call("IOObjectRelease", gpus.iterator, 0)
             /\ CountCallsNamed(io_log, "IOObjectRelease") = Len(gpus.entries) + 1
        ELSE CountCallsNamed(io_log, "IOObjectRelease") = 0

(* An enumeration of two entries, the first with unreadable properties and *)
(* the second with a value, both released.                                 *)
C4_Witness ==
    /\ GpuCalled
    /\ Len(gpus.entries) = 2
    /\ gpus.entries[1].props_res # KERN_SUCCESS
    /\ IsSome(gpu_ret)
    /\ \A i \in 1..2 : CountCalls(io_log, "IOObjectRelease", gpus.entries[i].id) = 1
    /\ CountCalls(io_log, "IOObjectRelease", gpus.iterator) = 1

(* Key i of UTILIZATION_KEYS is present in the statistics of the entry, is *)
(* a number and converts to f32 or to i64.                                 *)
UsableAt(entry, i) ==
    /\ entry.perf_dict[UTILIZATION_KEYS[i]].kind = "number"
    /\ \/ IsSome(entry.perf_dict[UTILIZATION_KEYS[i]].f32)
       \/ entry.perf_dict[UTILIZATION_KEYS[i]].i64ok

ValueAt(entry, i) ==
    IF IsSome(entry.perf_dict[UTILIZATION_KEYS[i]].f32)
    THEN entry.perf_dict[UTILIZATION_KEYS[i]].f32
    ELSE I64AsF32(entry.perf_dict[UTILIZATION_KEYS[i]].i64)

(* The entries of the enumeration that yield a usage: the properties were  *)
(* read, hold PerformanceStatistics, and some key is usable.               *)
YieldingEntries(env) ==
    {e \in 1..Len(env.entries) :
        /\ env.entries[e].props_res = KERN_SUCCESS
        /\ ~env.entries[e].props_null
        /\ env.entries[e].has_perf
        /\ \E i \in 1..Len(UTILIZATION_KEYS) : UsableAt(env.entries[e], i)}

(* The first usable key of a yielding entry, and its value. *)
FirstUsableKey(entry) ==
    CHOOSE i \in 1..Len(UTILIZATION_KEYS) :
        UsableAt(entry, i) /\ \A j \in 1..(i - 1) : ~UsableAt(entry, j)

DeviceUsage(env) ==
    [e \in YieldingEntries(env) |->
        ValueAt(env.entries[e], FirstUsableKey(env.entries[e]))]

(* C19: each device contributes the value of its first usable key in the   *)
(* order of UTILIZATION_KEYS, and nothing else: the result is the mean     *)
(* over the yielding devices of that one value each, whatever later keys   *)
(* and non-numeric earlier keys the device has.                            *)
C19_FirstUsableKeyPerDevice ==
    (GpuCalled /\ IteratorObtained(io_log)) =>
        gpu_ret = MeanOver(YieldingEntries(gpus), DeviceUsage(gpus))

(* Two devices: one with a non-number under the first key and 250 under    *)
(* the second, one with 90 under the second key and 10 under the third;    *)
(* the result is (250 + 90) / 2.                                           *)
C19_Witness ==
    /\ GpuCalled
    /\ Len(gpus.entries) = 2
    /\ gpus.entries[1].perf_dict = PerfDict(NotNumber, NumberF32(Num(250)), Absent, Absent)
    /\ gpus.entries[2].perf_dict =
          PerfDict(Absent, NumberF32(Num(90)), NumberF32(Num(10)), Absent)
    /\ YieldingEntries(gpus) = {1, 2}
    /\ gpu_ret = Num(170)

(* C20: the result is the sum of the usages of the devices that yielded    *)
(* one divided by the number of those devices, and it is none, not zero,   *)
(* when no device yielded one: no devices, no usable device, or an         *)
(* enumeration that could not be started.                                  *)
C20_MeanOverYieldingDevices ==
    GpuCalled =>
        IF ~IteratorObtained(io_log) \/ YieldingEntries(gpus) = {}
        THEN gpu_ret = None /\ gpu_ret # Num(0)
        ELSE /\ IsNum(gpu_ret)
             /\ RatTimesInt(gpu_ret, Cardinality(YieldingEntries(gpus)))
                    = SumOver(YieldingEntries(gpus), DeviceUsage(gpus))

(* Two devices, the first without PerformanceStatistics and the second at  *)
(* 30: the result is 30, not 15.                                           *)
C20_Witness ==
    /\ GpuCalled
    /\ Len(gpus.entries) = 2
    /\ gpus.entries[1].props_res = KERN_SUCCESS /\ ~gpus.entries[1].has_perf
    /\ YieldingEntries(gpus) = {2}
    /\ gpu_ret = Num(30)

(* C21: an entry whose properties cannot be read or hold no                *)
(* PerformanceStatistics adds nothing to the sum and the count and does    *)
(* not end the enumeration: the properties of every entry are asked for    *)
(* once, and the result is the one of the enumeration without these        *)
(* entries.                                                                *)
C21_UnreadableEntrySkipped ==
    (GpuCalled /\ IteratorObtained(io_log)) =>
        /\ \A e \in 1..Len(gpus.entries) :
              CountCalls(io_log, "IORegistryEntryCreateCFProperties",
                         gpus.entries[e].id) = 1
        /\ gpu_ret = get_gpu_usage([gpus EXCEPT !.entries =
                         SelectSeq(gpus.entries, HasStatistics)]).ret

(* The first entry answers with a null properties pointer, the second      *)
(* holds 90 under the second key; the result is 90.                        *)
C21_Witness ==
    /\ last_call.op = "get_gpu_usage"
    /\ Len(gpus.entries) = 2
    /\ gpus.entries[1].props_res = KERN_SUCCESS /\ gpus.entries[1].props_null
    /\ HasStatistics(gpus.entries[2])
    /\ CountCalls(io_log, "IORegistryEntryCreateCFProperties", gpus.entries[2].id) = 1
    /\ gpu_ret = Num(90)

---------------------------------------------------------------------------
(* Properties of the document and the unsaved-changes dialog *)

(* C28: a frame that clears the text for New, replaces it by an opened     *)
(* file or closes the window found the document not dirty, or handled the  *)
(* Don't Save button, or handled the Save button with a write that         *)
(* succeeded; and a frame of the Save button that performs the pending     *)
(* action has written the file.                                            *)
C28_DiscardOnlyWhenSafe ==
    /\ last_event.did # "none" =>
          \/ ~last_event.dirty
          \/ last_event.event = "dialog_dont_save"
          \/ (last_event.event = "dialog_save" /\ last_event.saved)
    /\ (last_event.event = "dialog_save" /\ last_event.did # "none") =>
          last_event.saved

(* C29: the dialog is shown exactly when a pending action is stored. *)
C29_DialogIffPending ==
    show_unsaved_dialog <=> pending_action # NoAction

(* Open asked for with a draft in the editor: the dialog is shown for a    *)
(* pending Open and the draft is still there.                              *)
C29_Witness ==
    /\ show_unsaved_dialog /\ pending_action = "Open"
    /\ last_event.event = "open_file"
    /\ dirty /\ text = "draft"

(* C30: whenever the dialog is shown the document is dirty. *)
C30_DialogImpliesDirty ==
    show_unsaved_dialog => dirty

(* C31: a close request received while the document is dirty or the       *)
(* dialog is shown is cancelled: the window stays open and the dialog is   *)
(* shown, with pending action Exit if it was not shown before and with the *)
(* pending action it had otherwise. The window closes only in a frame that *)
(* found the document not dirty and no dialog shown.                       *)
C31_CloseRequestCancelled ==
    [][ /\ (last_event'.event = "close_requested"
            /\ (dirty \/ show_unsaved_dialog)) =>
              /\ window' = "open"
              /\ show_unsaved_dialog'
              /\ pending_action' =
                    (IF show_unsaved_dialog THEN pending_action ELSE "Exit")
        /\ (window # "closed" /\ window' = "closed") =>
              /\ last_event'.event = "close_requested"
              /\ ~dirty /\ ~show_unsaved_dialog ]_vars

(* A close request with a dirty draft and no dialog: the window is still   *)
(* open and the dialog is shown with pending action Exit.                  *)
C31_Witness ==
    /\ last_event.event = "close_requested"
    /\ last_event.dirty /\ ~last_event.dialog
    /\ window = "open"
    /\ show_unsaved_dialog /\ pending_action = "Exit"
    /\ dirty /\ text = "draft"

(* C32: a frame of Save or Save As whose write fails leaves text,          *)
(* file_path and dirty as they are and sets the status message to the      *)
(* error; one whose write succeeds stores the text under the path,         *)
(* sets file_path to it and clears dirty; one whose picker is dismissed    *)
(* changes nothing. Save writes to file_path when there is one.            *)
C32_SaveOutcomes ==
    [][ last_event'.event \in {"save_file", "save_file_as"} =>
          /\ text' = text
          /\ show_unsaved_dialog' = show_unsaved_dialog
          /\ pending_action' = pending_action
          /\ (last_event'.event = "save_file" /\ file_path # NoPath) =>
                last_event'.wrote = file_path
          /\ (last_event'.wrote # NoPath /\ ~last_event'.saved) =>
                /\ file_path' = file_path /\ dirty' = dirty
                /\ status_message' =
                      Message("Error saving file", last_event'.wrote)
          /\ (last_event'.wrote # NoPath /\ last_event'.saved) =>
                /\ file_path' = last_event'.wrote /\ ~dirty'
                /\ disk' = [disk EXCEPT ![last_event'.wrote] = text]
                /\ status_message' = Message("Saved", last_event'.wrote)
          /\ last_event'.wrote = NoPath =>
                /\ ~last_event'.saved
                /\ file_path' = file_path /\ dirty' = dirty /\ disk' = disk
                /\ status_message' = status_message
      ]_vars

(* Save As of a dirty draft to b.txt has failed: the draft is dirty, has   *)
(* no path, and the file is as it was.                                     *)
C32_Witness ==
    /\ last_event.event = "save_file_as"
    /\ last_event.wrote = "b.txt" /\ ~last_event.saved
    /\ text = "draft" /\ dirty /\ file_path = NoPath
    /\ disk["b.txt"] = Unreadable
    /\ status_message = Message("Error saving file", "b.txt")

(* The frames that may run do_open_file with no save before it: Open with  *)
(* a clean document, and Don't Save with a pending Open.                   *)
OpenFrame ==
    \/ last_event'.event = "open_file"
    \/ (last_event'.event = "dialog_dont_save" /\ pending_action = "Open")

(* C33: when the picker is dismissed or the read fails, text, file_path    *)
(* and dirty are unchanged, and a read failure sets the status message to  *)
(* the error; when the read succeeds the text is the content of the file,  *)
(* file_path is its path and dirty is cleared.                             *)
C33_OpenOutcomes ==
    [][ OpenFrame =>
          /\ disk' = disk
          /\ last_event'.did = "open" =>
                /\ last_event'.read \in Paths
                /\ disk[last_event'.read] # Unreadable
                /\ text' = disk[last_event'.read]
                /\ file_path' = last_event'.read
                /\ ~dirty'
                /\ status_message' = Message("Opened", last_event'.read)
          /\ last_event'.did # "open" =>
                /\ text' = text /\ file_path' = file_path /\ dirty' = dirty
                /\ IF last_event'.read # NoPath
                   THEN /\ disk[last_event'.read] = Unreadable
                        /\ status_message' =
                              Message("Error opening file", last_event'.read)
                   ELSE status_message' = status_message
      ]_vars

(* Open of b.txt, which cannot be read, with a.txt in the editor: the text *)
(* and the path are those of a.txt.                                        *)
C33_Witness ==
    /\ last_event.event = "open_file"
    /\ last_event.read = "b.txt" /\ last_event.did = "none"
    /\ text = "old" /\ file_path = "a.txt" /\ ~dirty
    /\ status_message = Message("Error opening file", "b.txt")

(* C34: the Cancel button hides the dialog and clears the pending action,  *)
(* performs no action, and leaves text, file_path, dirty, the disk and the *)
(* window as they are.                                                     *)
C34_CancelKeepsDocument ==
    [][ last_event'.event = "dialog_cancel" =>
          /\ ~show_unsaved_dialog' /\ pending_action' = NoAction
          /\ last_event'.did = "none"
          /\ last_event'.wrote = NoPath /\ last_event'.read = NoPath
          /\ text' = text /\ file_path' = file_path /\ dirty' = dirty
          /\ disk' = disk /\ window' = window
          /\ status_message' = status_message
      ]_vars

(* Cancel with a pending New and a dirty draft: the draft is still there   *)
(* and dirty.                                                              *)
C34_Witness ==
    /\ last_event.event = "dialog_cancel"
    /\ last_event.dialog /\ last_event.dirty
    /\ ~show_unsaved_dialog /\ pending_action = NoAction
    /\ text = "draft" /\ dirty

---------------------------------------------------------------------------
(* Properties of the weather refresh and of the font size *)

Spawned(f) == f.state # "not spawned"

Succeeded(f) == f.state = "finished" /\ f.info.present

(* C35: a background fetch is started only when more than 600 s have       *)
(* passed since the previous fetch was started, and that step takes the    *)
(* timestamp; nothing else changes the timestamp, whether the fetch fails, *)
(* returns or is still running, so the starts of any two fetches are more  *)
(* than 600 s apart.                                                       *)
C35_FetchOnlyAfterWindow ==
    [][ /\ (\E i \in FetchIds : ~Spawned(fetches[i]) /\ Spawned(fetches'[i])) =>
              /\ now_secs - last_weather_fetch > 600
              /\ last_weather_fetch' = now_secs
        /\ last_weather_fetch' # last_weather_fetch =>
              \E i \in FetchIds : /\ ~Spawned(fetches[i])
                                  /\ fetches'[i].state = "fetching"
                                  /\ fetches'[i].started = last_weather_fetch'
        /\ \A i, j \in FetchIds :
              (i < j /\ Spawned(fetches'[j])) =>
                  /\ Spawned(fetches'[i])
                  /\ fetches'[j].started - fetches'[i].started > 600 ]_vars

(* refresh_weather_if_needed was called exactly 600 s after the first      *)
(* fetch was started, that fetch has failed, and no second fetch exists.   *)
C35_Witness ==
    /\ weather_event.op = "refresh"
    /\ weather_event.elapsed = 600
    /\ weather_event.spawned = 0
    /\ fetches[1].state = "finished"
    /\ ~fetches[1].info.present
    /\ ~Spawned(fetches[2])
    /\ last_weather_fetch = 0

(* C36: the shared weather value changes only in a step of a thread that   *)
(* holds the mutex and whose fetch returned a value, and it becomes that   *)
(* value; a thread whose fetch failed ends without changing it; a present  *)
(* value never becomes absent, and a title bar that has shown a value      *)
(* never shows "Loading..." again.                                         *)
C36_WeatherWrittenUnderLock ==
    [][ /\ (weather' # weather \/ weather_writer' # weather_writer) =>
              \E i \in FetchIds : /\ weather_lock = i
                                  /\ fetches[i].state = "locked"
                                  /\ fetches[i].info.present
                                  /\ weather' = fetches[i].info
                                  /\ weather_writer' = i
        /\ \A i \in FetchIds :
              (/\ fetches[i].state = "fetching"
               /\ fetches'[i].state # "fetching"
               /\ ~fetches'[i].info.present) =>
                  /\ fetches'[i].state = "finished"
                  /\ weather' = weather
        /\ weather.present => weather'.present
        /\ title_weather.text \notin {"", "Loading..."} =>
              title_weather'.text # "Loading..." ]_vars

(* The first fetch stored 70 degrees and clear sky, the second fetch has   *)
(* failed, and the title bar rendered after it shows the stored value.     *)
C36_Witness ==
    /\ weather_event.op = "render"
    /\ weather_writer = 1
    /\ weather = WeatherInfo(Num(70), "Clear", 9728)
    /\ fetches[2].state = "finished"
    /\ ~fetches[2].info.present
    /\ title_weather = [icon |-> 9728, text |-> "70°F Clear"]

C38_FontSizeInRange ==
    /\ font_size >= 8
    /\ font_size <= 48
    /\ (font_event.button = "minus" /\ font_event.before = 8) => font_size = 8
    /\ (font_event.button = "plus" /\ font_event.before = 48) => font_size = 48

(* Plus was clicked at 48. *)
C38_Witness ==
    /\ font_event.button = "plus"
    /\ font_event.before = 48
    /\ font_size = 48

---------------------------------------------------------------------------
(* Properties of one collect_stats call and of the status bar *)

StatsCalled == last_call.op = "collect_stats"
StatsOtherCalled == last_call.op = "collect_stats (not macos)"
RenderCalled == last_call.op = "render_status_bar"

(* C24: ram_usage is used / total * 100 when total is greater than zero    *)
(* (50 for used 4 and total 8) and 0 when total is zero, in both builds.   *)
C24_RamPercentage ==
    (StatsCalled \/ StatsOtherCalled) =>
        /\ IsNum(stats_ret.ram_usage)
        /\ os.total > 0 =>
              stats_ret.ram_usage.n * os.total = os.used * 100 * stats_ret.ram_usage.d
        /\ os.total = 0 => stats_ret.ram_usage = Num(0)
        /\ (os.used = 4 /\ os.total = 8) => stats_ret.ram_usage = Num(50)

(* 4 of 8 used give 50, on macOS. *)
C24_Witness ==
    /\ StatsCalled
    /\ os.used = 4 /\ os.total = 8
    /\ stats_ret.ram_usage = Num(50)

(* C23: the snapshot of the build for the other platforms has no           *)
(* gpu_usage and no cpu_temperature, the CPU figure of the system and the  *)
(* RAM percentage; the snapshot of the macOS build with both services      *)
(* absent is the same snapshot.                                            *)
C23_UnsupportedSameAsUnavailable ==
    /\ StatsOtherCalled =>
          /\ stats_ret.gpu_usage = None /\ stats_ret.cpu_temp = None
          /\ stats_ret.cpu_usage = Num(os.cpu)
          /\ stats_ret.ram_usage =
                (IF os.total > 0 THEN Rat(os.used * 100, os.total) ELSE Num(0))
    /\ (StatsCalled /\ GpuServiceAbsent(gpus) /\ SmcServiceAbsent(smc)) =>
          stats_ret = collect_stats_fallback(os, gpus, smc).ret

(* The macOS build with no accelerator class and no sensor service:        *)
(* the load figures and nothing else.                                      *)
C23_Witness ==
    /\ StatsCalled
    /\ ~gpus.matching /\ smc.service = 0
    /\ os = OsState(50, 4, 8)
    /\ stats_ret = SystemStats(Num(50), None, Num(50), None)

(* The fields of a snapshot other than gpu_usage, and other than cpu_temp. *)
ExceptGpu(st) == <<st.cpu_usage, st.ram_usage, st.cpu_temp>>
ExceptTemp(st) == <<st.cpu_usage, st.gpu_usage, st.ram_usage>>

(* The snapshot has its four fields, and its fields other than gpu_usage   *)
(* are those of the same call with healthy accelerators.                   *)
OnlyGpuAffected ==
    /\ DOMAIN stats_ret = {"cpu_usage", "gpu_usage", "ram_usage", "cpu_temp"}
    /\ \A g \in {HealthyGpu, HealthyGpuPair} :
          ExceptGpu(stats_ret) = ExceptGpu(collect_stats(os, g, smc).ret)

(* The same for cpu_temp and healthy sensors. *)
OnlyTempAffected ==
    /\ DOMAIN stats_ret = {"cpu_usage", "gpu_usage", "ram_usage", "cpu_temp"}
    /\ \A e \in {HealthySmc, HealthySmcPair} :
          ExceptTemp(stats_ret) = ExceptTemp(collect_stats(os, gpus, e).ret)

ShowsTenths(txt, v, unit) ==
    /\ IsNum(v)
    /\ \E m \in {(10 * v.n) \div v.d, (10 * v.n) \div v.d + 1} :
          /\ txt = TenthsText(m) \o unit
          /\ Abs(20 * v.n - 2 * m * v.d) <= v.d

(* The text is a whole number followed by unit, within a half of v. *)
ShowsWhole(txt, v, unit) ==
    /\ IsNum(v)
    /\ \E m \in {v.n \div v.d, v.n \div v.d + 1} :
          /\ txt = ToString(m) \o unit
          /\ Abs(2 * v.n - 2 * m * v.d) <= v.d

(* C26: the status bar shows cpu_usage and ram_usage as numbers; it shows  *)
(* "N/A" for gpu_usage and for cpu_temperature exactly when the snapshot   *)
(* has none, a number otherwise, and no zero for an absent field.          *)
C26_StatusBarTexts ==
    RenderCalled =>
        /\ ShowsTenths(status_bar.cpu, system_stats.cpu_usage, "%")
        /\ ShowsTenths(status_bar.ram, system_stats.ram_usage, "%")
        /\ status_bar.gpu = "N/A" <=> ~IsSome(system_stats.gpu_usage)
        /\ status_bar.temp = "N/A" <=> ~IsSome(system_stats.cpu_temp)
        /\ IsSome(system_stats.gpu_usage) =>
              ShowsTenths(status_bar.gpu, system_stats.gpu_usage, "%")
        /\ IsSome(system_stats.cpu_temp) =>
              ShowsWhole(status_bar.temp, system_stats.cpu_temp, "°C")
        /\ status_bar.label =
              "CPU: " \o status_bar.cpu \o " | GPU: " \o status_bar.gpu
              \o " | RAM: " \o status_bar.ram \o " | Temp: " \o status_bar.temp

(* A snapshot with a temperature of 45.5 and no accelerator usage on the   *)
(* screen.                                                                 *)
C26_Witness ==
    /\ RenderCalled
    /\ system_stats = SystemStats(Num(50), None, Num(50), Rat(91, 2))
    /\ status_bar.label = "CPU: 50.0% | GPU: N/A | RAM: 50.0% | Temp: 46°C"

---------------------------------------------------------------------------
(* Properties of the snapshot *)

(* A percentage: a number from 0 to 100. *)
PlausiblePercent(v) == IsNum(v) /\ RatLeq(Num(0), v) /\ RatLeq(v, Num(100))

===========================================================================
